---- MODULE Spec2Model ----
(***************************************************************************)
(* The I/O driver of a QUIC endpoint (quinn/src/endpoint.rs): the state    *)
(* behind the endpoint mutex, the driver future's poll with its five       *)
(* pipelines, the API calls that take the mutex, the accept() and          *)
(* wait_idle() futures, and the forwarding ("JLS") table.                  *)
(*                                                                         *)
(* One driver poll holds the mutex from its first to its last step; it is  *)
(* modelled as a sequence of steps (pc) during which no other holder of    *)
(* the mutex can act.  The states with Unlocked are the mutex releases.    *)
(* The protocol engine (proto::Endpoint), the sockets, the per-connection  *)
(* workers and the clock are the environment: their answers are inputs     *)
(* drawn from small sets.                                                  *)
(***************************************************************************)
EXTENDS Integers, Sequences, FiniteSets, TLC

\* ------------------------------------------------------------- bounds
\* Capacity the environment respects: a worker hands in a Transmit only while
\* outgoing plus the queued Transmit events stay within MaxOutgoing.
MaxOutgoing == 2
\* Datagrams a client may have queued for its upstream.
MaxPending == 2
\* Events the workers may have queued for the endpoint.
MaxEvents == 2
\* Undelivered events on one connection's channel.
MaxChannel == 1
\* Accepted-but-unclaimed connections.
MaxIncoming == 2
\* Segments one poll_recv returns.
MaxBatch == 2
\* Live clones of the Endpoint handle.
MaxHandleRefs == 2
\* crate::MAX_TRANSMIT_QUEUE_CONTENTS_LEN, scaled down.
QueueCap == 3
\* The admission scenario of the specification: a cap of 1024 bytes and
\* engine responses of 200 bytes.
FloodCap == 1024
FloodLen == 200
\* crate::IO_LOOP_BOUND, scaled down.
IO_LOOP_BOUND == 2
\* The clock advances in steps of TickSecs up to MaxClock seconds.
TickSecs == 16
MaxClock == 32
\* endpoint.rs:686, `as_secs() > 30`
IDLE_SECS == 30

Handles == {1, 2}
\* Remote (client) addresses.
Addrs == {1, 2}
\* The upstream address a crypto session may advertise; NoAddr is None.
UpstreamAddr == 9
NoAddr == 0
\* Payload lengths of the scaled runs.
Lens == {1, 2}
\* (error_code, reason) pairs of close().
CloseCodes == {1, 2}
NoClose == 0
\* The sockets an endpoint may be bound to; socket 2 is an IPv6 socket.
Sockets == {1, 2}
Acceptors == {1}
Waiters == {1}

VARIABLES
    \* State (endpoint.rs:361-382)
    socket, ipv6, outgoing, transmit_queue_contents_len, incoming, driver,
    senders, close, events, ref_count, driver_lost, upstream_connections,
    \* crate::MAX_TRANSMIT_QUEUE_CONTENTS_LEN: fixed for a whole behaviour
    max_queue_len,
    \* the driver task: its position, and the locals of the running poll
    pc, now, keep_going, batch, decision, ev_count, up_todo, up_cur,
    last_err, to_remove, poll_result,
    \* the environment: clock, Endpoint clones, accept()/wait_idle() futures
    clock, api_handles, acc, idle_fut,
    \* history: handles inserted whose drained event has not been consumed;
    \* transmits the socket took and connections the engine accepted in the
    \* latest poll
    inserted, sent, accepted,
    \* observations: what the latest observed API call returned and the address
    \* it handed to the engine; whether the latest poll swallowed a
    \* ConnectionReset of the endpoint socket; whether the endpoint socket was
    \* replaced since the driver last called poll_recv on it
    call_result, reset_seen, rebound

state_vars == <<socket, ipv6, outgoing, transmit_queue_contents_len, incoming,
                driver, senders, close, events, ref_count, driver_lost,
                upstream_connections, max_queue_len>>
poll_vars == <<pc, now, keep_going, batch, decision, ev_count, up_todo, up_cur,
               last_err, to_remove, poll_result>>
env_vars == <<clock, api_handles, acc, idle_fut>>
hist_vars == <<inserted, sent, accepted>>
obs_vars == <<call_result, reset_seen, rebound>>
vars == <<state_vars, poll_vars, env_vars, hist_vars, obs_vars>>

\* ------------------------------------------------------------- values
NoDecision == [kind |-> "none", h |-> 0, len |-> 0, dst |-> 0, up |-> 0]
Flood == max_queue_len = FloodCap
EnvLens == IF Flood THEN {FloodLen} ELSE Lens

\* udp::Transmit: destination and contents (by length).  `limited` records
\* that the transmit passed the admission check when it was enqueued.
Transmit(dst, len, limited) == [dst |-> dst, len |-> len, limited |-> limited]

RECURSIVE SumLen(_)
SumLen(q) == IF q = <<>> THEN 0 ELSE Head(q).len + SumLen(Tail(q))

usize_saturating_sub(a, b) == IF b > a THEN 0 ELSE a - b
\* usize::saturating_add; the sums of the model stay far below usize::MAX
usize_saturating_add(a, b) == a + b

Remove(f, S) == [k \in DOMAIN f \ S |-> f[k]]
Range(q) == {q[i] : i \in 1..Len(q)}

InPoll == pc \in {"recv", "recv_batch", "recv_act", "events", "send",
                  "uprecv", "upsend", "finish"}
\* The mutex is free.
Unlocked == ~InPoll

\* ------------------------------------------------ environment values
SegmentsOf(addrs, lens) == {[addr |-> a, len |-> l] : a \in addrs, l \in lens}
BatchesOf(addrs, lens) ==
    UNION {[1..n -> SegmentsOf(addrs, lens)] : n \in 1..MaxBatch}
Batches == BatchesOf(Addrs, Lens)
\* batches of one-byte segments from any source, and from source 1 alone
AddrBatches == BatchesOf(Addrs, {1})
UnitBatches == BatchesOf({1}, {1})
FromAddr(b, a) == Cardinality({i \in 1..Len(b) : b[i].addr = a})
PendingLen(a) ==
    IF a \in DOMAIN upstream_connections
    THEN Len(upstream_connections[a].to_upstream) ELSE 0
\* The clients' own flow control: a batch never overfills a pending queue.
BatchFits(b) == \A a \in Addrs : FromAddr(b, a) + PendingLen(a) <= MaxPending

\* ConnectionEvent, the events a worker receives on its channel
Ping == [kind |-> "Ping", code |-> 0]
CloseEvent(c) == [kind |-> "Close", code |-> c]
ProtoEvent == [kind |-> "Proto", code |-> 0]
\* The remote address of connection h.
PeerOf(h) == h
\* EndpointEvent with its handle, the events the workers send
WorkerEvent(h, kind, len) == [h |-> h, kind |-> kind, len |-> len]

\* SocketAddr of a connect target: its family and host; `mapped` marks an
\* IPv4-mapped IPv6 address.
Target(family, ip) == [family |-> family, ip |-> ip, mapped |-> FALSE]
NoTarget == [family |-> "none", ip |-> 0, mapped |-> FALSE]
Targets == {Target("v4", 1), Target("v6", 1)}
\* What proto::Endpoint::connect answers: a connection, or a ConnectError.
EngineAnswers == {"Ok", "EngineError"}
\* No API call has been observed yet.
NoCall == [op |-> "none", res |-> "none", h |-> 0, addr |-> NoTarget]

\* tokio Notify::notify_waiters: every future waiting on the Notify is woken.
notify_waiters(futs) ==
    [i \in DOMAIN futs |->
        IF futs[i].st = "parked" THEN [futs[i] EXCEPT !.st = "woken"]
        ELSE futs[i]]

\* --------------------------------------------------- ConnectionSet
\* Faulty variant: it omits the Close a closed endpoint puts first on a new channel.
ConnectionSet_insert_NoClose(s, h) ==
    [k \in DOMAIN s \cup {h} |-> IF k = h THEN <<>> ELSE s[k]]

\* ConnectionSet::insert: a new channel, holding Close when the endpoint has
\* been closed, stored under the handle.
ConnectionSet_insert(s, h) ==
    [k \in DOMAIN s \cup {h} |->
        IF k = h
        THEN IF close # NoClose THEN <<CloseEvent(close)>> ELSE <<>>
        ELSE s[k]]

\* Faulty variant: it sends on one channel only.
SendAll_One(s, S, ev) ==
    [k \in DOMAIN s |->
        IF k \in S /\ \A j \in S : k <= j THEN Append(s[k], ev) ELSE s[k]]

\* sender.send(ev) on the channel of every key in S
SendAll(s, S, ev) ==
    [k \in DOMAIN s |-> IF k \in S THEN Append(s[k], ev) ELSE s[k]]

ChannelsHaveRoom == \A k \in DOMAIN senders : Len(senders[k]) < MaxChannel

\* ------------------------------------------------- the outgoing queue
\* Faulty variant: it admits at the cap itself.
QueueAdmits_AtCap(bytes, cap) == bytes <= cap

\* endpoint.rs:481 and :664, the admission check
QueueAdmits(bytes, cap) == bytes < cap

\* Faulty variant: it forgets the byte count.
PushTransmit_NoCount(t) ==
    /\ outgoing' = Append(outgoing, t)
    /\ transmit_queue_contents_len' = transmit_queue_contents_len

\* Faulty variant: it pushes only below the cap, as the admission check does.
PushTransmit_Checked(t) ==
    IF QueueAdmits(transmit_queue_contents_len, max_queue_len)
    THEN /\ outgoing' = Append(outgoing, t)
         /\ transmit_queue_contents_len' =
                usize_saturating_add(transmit_queue_contents_len, t.len)
    ELSE UNCHANGED <<outgoing, transmit_queue_contents_len>>

\* push_back and saturating_add of the contents length
PushTransmit(t) ==
    /\ outgoing' = Append(outgoing, t)
    /\ transmit_queue_contents_len' =
           usize_saturating_add(transmit_queue_contents_len, t.len)

\* Faulty variant: it drains the last n transmits.
DrainSent_Back(n) ==
    /\ outgoing' = SubSeq(outgoing, 1, Len(outgoing) - n)
    /\ transmit_queue_contents_len' =
           usize_saturating_sub(transmit_queue_contents_len,
               SumLen(SubSeq(outgoing, Len(outgoing) - n + 1, Len(outgoing))))

\* endpoint.rs:577-581, drain(..n) and saturating_sub of the drained lengths
DrainSent(n) ==
    /\ outgoing' = SubSeq(outgoing, n + 1, Len(outgoing))
    /\ transmit_queue_contents_len' =
           usize_saturating_sub(transmit_queue_contents_len,
                                SumLen(SubSeq(outgoing, 1, n)))

\* Faulty variant: it admits without the check.
AdmitTransmit_Always(t) == PushTransmit(t)

\* Admission control: enqueue below the cap, drop silently otherwise.
AdmitTransmit(t) ==
    IF QueueAdmits(transmit_queue_contents_len, max_queue_len)
    THEN PushTransmit(t)
    ELSE UNCHANGED <<outgoing, transmit_queue_contents_len>>

\* ------------------------------------------------- the driver's poll
\* The locals of a poll are dropped when it returns.
LeavePoll(next_pc, res) ==
    /\ pc' = next_pc
    /\ poll_result' = res
    /\ keep_going' = FALSE
    /\ batch' = <<>>
    /\ decision' = NoDecision
    /\ ev_count' = 0
    /\ up_todo' = {}
    /\ up_cur' = NoAddr
    /\ last_err' = FALSE
    /\ to_remove' = {}
    /\ UNCHANGED now

\* Faulty variant: it swallows the error and lets the poll return Pending.
ReturnErr_Pending == LeavePoll("parked", "pending")

\* `?` on an Err of a pipeline: poll returns Ready(Err(e)) at once.
ReturnErr == LeavePoll("returned", "err")

\* endpoint.rs:309-316: lock, install the waker once, read the clock.
PollBegin ==
    /\ pc = "parked"
    /\ pc' = "recv"
    /\ driver' = TRUE
    /\ now' = clock
    /\ keep_going' = FALSE
    /\ UNCHANGED <<socket, ipv6, outgoing, transmit_queue_contents_len, incoming,
                   senders, close, events, ref_count, driver_lost,
                   upstream_connections, max_queue_len>>
    /\ UNCHANGED <<batch, decision, ev_count, up_todo, up_cur, last_err,
                   to_remove, poll_result>>
    /\ sent' = 0
    /\ accepted' = {}
    /\ UNCHANGED <<env_vars, inserted>>
    /\ reset_seen' = FALSE
    /\ UNCHANGED <<call_result, rebound>>

\* ---- drive_recv (endpoint.rs:423-558)
\* poll_recv returns a batch of datagrams, split into segments by stride.
RecvPollOk(b) ==
    /\ pc = "recv"
    /\ BatchFits(b)
    /\ batch' = b
    /\ pc' = "recv_batch"
    /\ UNCHANGED <<state_vars, env_vars, hist_vars>>
    /\ UNCHANGED <<now, keep_going, decision, ev_count, up_todo, up_cur, last_err,
                   to_remove, poll_result>>
    /\ rebound' = FALSE
    /\ UNCHANGED <<call_result, reset_seen>>

\* poll_recv returns Pending: drive_recv returns Ok(false).
RecvPollPending ==
    /\ pc = "recv"
    /\ pc' = "events"
    /\ ev_count' = 0
    /\ UNCHANGED <<state_vars, env_vars, hist_vars>>
    /\ UNCHANGED <<now, keep_going, batch, decision, up_todo, up_cur, last_err,
                   to_remove, poll_result>>
    /\ rebound' = FALSE
    /\ UNCHANGED <<call_result, reset_seen>>

\* poll_recv returns an error other than ConnectionReset.
RecvPollErr ==
    /\ pc = "recv"
    /\ ReturnErr
    /\ UNCHANGED <<state_vars, env_vars, hist_vars>>
    /\ rebound' = FALSE
    /\ UNCHANGED <<call_result, reset_seen>>

\* endpoint.rs:543-545: ConnectionReset is ignored and poll_recv is called
\* again, without asking the limiter.
RecvPollReset ==
    /\ pc = "recv"
    /\ reset_seen' = TRUE
    /\ rebound' = FALSE
    /\ UNCHANGED <<state_vars, poll_vars, env_vars, hist_vars, call_result>>

\* Faulty variant: it offers every segment to the engine as well.
handle_jls_forward_Never(remote) == FALSE

\* JlsState::handle_jls_forward: whether the source has a forward entry
handle_jls_forward(remote) == remote \in DOMAIN upstream_connections

upstream_udp_transmit(addr, len) == [dst |-> addr, len |-> len]

\* endpoint.rs:395-400: the segment goes to the entry's pending queue.
RecvForward ==
    /\ pc = "recv_batch"
    /\ batch # <<>>
    /\ handle_jls_forward(Head(batch).addr)
    /\ LET a == Head(batch).addr
           conn == upstream_connections[a]
       IN upstream_connections' =
              [upstream_connections EXCEPT ![a].to_upstream =
                  Append(conn.to_upstream,
                         upstream_udp_transmit(conn.upstream_addr, Head(batch).len))]
    /\ batch' = Tail(batch)
    /\ UNCHANGED <<socket, ipv6, outgoing, transmit_queue_contents_len, incoming,
                   driver, senders, close, events, ref_count, driver_lost,
                   max_queue_len>>
    /\ UNCHANGED <<pc, now, keep_going, decision, ev_count, up_todo, up_cur,
                   last_err, to_remove, poll_result>>
    /\ UNCHANGED <<env_vars, hist_vars>>
    /\ UNCHANGED obs_vars

\* What proto::Endpoint::handle may answer for a segment.  A new handle is one
\* the engine does not hold; a ConnectionEvent is for a connection it holds.
EngineDecisions(seg, kinds) ==
    {d \in
        {[kind |-> "None", h |-> 0, len |-> 0, dst |-> 0, up |-> 0]}
        \cup {[kind |-> "Response", h |-> 0, len |-> l, dst |-> seg.addr, up |-> 0]
                 : l \in EnvLens}
        \cup {[kind |-> "NewConnection", h |-> h, len |-> 0, dst |-> 0, up |-> 0]
                 : h \in {x \in Handles \ inserted : Len(incoming) < MaxIncoming}}
        \cup {[kind |-> "ConnectionEvent", h |-> h, len |-> 0, dst |-> 0, up |-> 0]
                 : h \in {x \in DOMAIN senders : Len(senders[x]) < MaxChannel}}
        \cup {[kind |-> "NewForward", h |-> 0, len |-> l, dst |-> seg.addr,
               up |-> u] : l \in EnvLens, u \in {NoAddr, UpstreamAddr}}
     : d.kind \in kinds}

\* endpoint.rs:451-457: the segment is offered to the protocol engine.
RecvOffer(kinds) ==
    /\ pc = "recv_batch"
    /\ batch # <<>>
    /\ ~handle_jls_forward(Head(batch).addr)
    /\ \E d \in EngineDecisions(Head(batch), kinds) : decision' = d
    /\ pc' = "recv_act"
    /\ UNCHANGED <<state_vars, env_vars, hist_vars>>
    /\ UNCHANGED <<now, keep_going, batch, ev_count, up_todo, up_cur, last_err,
                   to_remove, poll_result>>
    /\ UNCHANGED obs_vars

\* Faulty variant: it leaves the initial payload out of the pending queue.
NewForwardEntry_NoPayload(d) ==
    [upstream_addr |-> d.up, to_upstream |-> <<>>, active_time |-> now]

\* endpoint.rs:514-529: the entry made for a NewForward decision, keyed by
\* the client's address and holding the engine's initial payload.
NewForwardEntry(d) ==
    [upstream_addr |-> d.up,
     to_upstream |-> <<upstream_udp_transmit(d.up, d.len)>>,
     active_time |-> now]

\* endpoint.rs:458-533: the arms of the match on the engine's decision.
RecvAct ==
    /\ pc = "recv_act"
    /\ pc' = "recv_batch"
    /\ batch' = Tail(batch)
    /\ decision' = NoDecision
    /\ CASE decision.kind = "NewConnection" ->
              /\ senders' = ConnectionSet_insert(senders, decision.h)
              /\ incoming' = Append(incoming, decision.h)
              /\ inserted' = inserted \cup {decision.h}
              /\ accepted' = accepted \cup {decision.h}
              /\ UNCHANGED <<outgoing, transmit_queue_contents_len,
                             upstream_connections>>
         [] decision.kind = "ConnectionEvent" ->
              /\ senders' = SendAll(senders, {decision.h}, ProtoEvent)
              /\ UNCHANGED <<outgoing, transmit_queue_contents_len, incoming,
                             upstream_connections, inserted, accepted>>
         [] decision.kind = "Response" ->
              /\ AdmitTransmit(Transmit(decision.dst, decision.len, TRUE))
              /\ UNCHANGED <<senders, incoming, upstream_connections, inserted,
                             accepted>>
         [] decision.kind = "NewForward" /\ decision.up # NoAddr ->
              /\ upstream_connections' =
                     [a \in DOMAIN upstream_connections \cup {decision.dst} |->
                         IF a = decision.dst THEN NewForwardEntry(decision)
                         ELSE upstream_connections[a]]
              /\ UNCHANGED <<outgoing, transmit_queue_contents_len, senders,
                             incoming, inserted, accepted>>
         [] OTHER ->
              UNCHANGED <<outgoing, transmit_queue_contents_len, senders,
                          incoming, upstream_connections, inserted, accepted>>
    /\ UNCHANGED <<socket, ipv6, driver, close, events, ref_count, driver_lost,
                   max_queue_len>>
    /\ UNCHANGED <<now, keep_going, ev_count, up_todo, up_cur, last_err,
                   to_remove, poll_result>>
    /\ UNCHANGED <<env_vars, sent>>
    /\ UNCHANGED obs_vars

\* endpoint.rs:498-500: binding the upstream socket fails.
RecvActBindErr ==
    /\ pc = "recv_act"
    /\ decision.kind = "NewForward"
    /\ decision.up # NoAddr
    /\ ReturnErr
    /\ UNCHANGED <<state_vars, env_vars, hist_vars>>
    /\ UNCHANGED obs_vars

\* endpoint.rs:550: the limiter allows another poll_recv.
RecvAllow ==
    /\ pc = "recv_batch"
    /\ batch = <<>>
    /\ pc' = "recv"
    /\ UNCHANGED <<state_vars, env_vars, hist_vars>>
    /\ UNCHANGED <<now, keep_going, batch, decision, ev_count, up_todo, up_cur,
                   last_err, to_remove, poll_result>>
    /\ UNCHANGED obs_vars

\* endpoint.rs:550-553: the budget is spent, drive_recv returns Ok(true).
RecvDeny ==
    /\ pc = "recv_batch"
    /\ batch = <<>>
    /\ pc' = "events"
    /\ keep_going' = TRUE
    /\ ev_count' = 0
    /\ UNCHANGED <<state_vars, env_vars, hist_vars>>
    /\ UNCHANGED <<now, batch, decision, up_todo, up_cur, last_err, to_remove,
                   poll_result>>
    /\ UNCHANGED obs_vars

\* ---- handle_events (endpoint.rs:599-638)
\* Faulty variant: it keeps the sender of a drained connection.
RemoveDrained_Keep(s, ch) == s

\* endpoint.rs:607, senders.remove(&ch)
RemoveDrained(s, ch) == Remove(s, {ch})

\* endpoint.rs:608-610: the idle waiters are notified when the set is empty.
NotifyIdle(s, futs) == IF DOMAIN s = {} THEN notify_waiters(futs) ELSE futs

\* A Proto event that says the connection has drained.
EventDrained ==
    /\ pc = "events"
    /\ ev_count < IO_LOOP_BOUND
    /\ events # <<>>
    /\ Head(events).kind = "Drained"
    /\ senders' = RemoveDrained(senders, Head(events).h)
    /\ idle_fut' = NotifyIdle(senders', idle_fut)
    /\ inserted' = inserted \ {Head(events).h}
    /\ events' = Tail(events)
    /\ ev_count' = ev_count + 1
    /\ UNCHANGED <<socket, ipv6, outgoing, transmit_queue_contents_len, incoming,
                   driver, close, ref_count, driver_lost, upstream_connections,
                   max_queue_len>>
    /\ UNCHANGED <<pc, now, keep_going, batch, decision, up_todo, up_cur, last_err,
                   to_remove, poll_result>>
    /\ UNCHANGED <<clock, api_handles, acc, sent, accepted>>
    /\ UNCHANGED obs_vars

\* What the engine's handle_event(ch, e) may return for an event: nothing
\* (FALSE) or a follow-up event for the worker of ch (TRUE).
handle_event_answers(e) == BOOLEAN

\* endpoint.rs:605-621 on a drained event for which the engine returns a
\* follow-up: the sender is removed first, then senders.get_mut(&ch) is
\* unwrapped.  The lookup of a key that is absent panics inside the poll.
EventDrainedFollowUp ==
    /\ pc = "events"
    /\ ev_count < IO_LOOP_BOUND
    /\ events # <<>>
    /\ Head(events).kind = "Drained"
    /\ TRUE \in handle_event_answers(Head(events))
    /\ LET ch == Head(events).h
           removed == RemoveDrained(senders, ch)
       IN /\ idle_fut' = NotifyIdle(removed, idle_fut)
          /\ IF ch \in DOMAIN removed
             THEN /\ Len(removed[ch]) < MaxChannel
                  /\ senders' = SendAll(removed, {ch}, ProtoEvent)
                  /\ events' = Tail(events)
                  /\ ev_count' = ev_count + 1
                  /\ pc' = pc
             ELSE /\ senders' = removed
                  /\ pc' = "panicked"
                  /\ UNCHANGED <<events, ev_count>>
    /\ inserted' = inserted \ {Head(events).h}
    /\ UNCHANGED <<socket, ipv6, outgoing, transmit_queue_contents_len, incoming,
                   driver, close, ref_count, driver_lost, upstream_connections,
                   max_queue_len>>
    /\ UNCHANGED <<now, keep_going, batch, decision, up_todo, up_cur, last_err,
                   to_remove, poll_result>>
    /\ UNCHANGED <<clock, api_handles, acc, sent, accepted>>
    /\ UNCHANGED obs_vars

\* Any other Proto event; the engine may answer with an event for the worker.
EventProto(followup) ==
    /\ pc = "events"
    /\ ev_count < IO_LOOP_BOUND
    /\ events # <<>>
    /\ Head(events).kind = "Proto"
    /\ IF followup
       THEN /\ Head(events).h \in DOMAIN senders
            /\ Len(senders[Head(events).h]) < MaxChannel
            /\ senders' = SendAll(senders, {Head(events).h}, ProtoEvent)
       ELSE UNCHANGED senders
    /\ events' = Tail(events)
    /\ ev_count' = ev_count + 1
    /\ UNCHANGED <<socket, ipv6, outgoing, transmit_queue_contents_len, incoming,
                   driver, close, ref_count, driver_lost, upstream_connections,
                   max_queue_len>>
    /\ UNCHANGED <<pc, now, keep_going, batch, decision, up_todo, up_cur, last_err,
                   to_remove, poll_result>>
    /\ UNCHANGED <<env_vars, hist_vars>>
    /\ UNCHANGED obs_vars

\* endpoint.rs:622-628: a connection's transmit is enqueued without a check.
EventTransmit ==
    /\ pc = "events"
    /\ ev_count < IO_LOOP_BOUND
    /\ events # <<>>
    /\ Head(events).kind = "Transmit"
    /\ PushTransmit(Transmit(PeerOf(Head(events).h), Head(events).len, FALSE))
    /\ events' = Tail(events)
    /\ ev_count' = ev_count + 1
    /\ UNCHANGED <<socket, ipv6, incoming, driver, senders, close, ref_count,
                   driver_lost, upstream_connections, max_queue_len>>
    /\ UNCHANGED <<pc, now, keep_going, batch, decision, up_todo, up_cur, last_err,
                   to_remove, poll_result>>
    /\ UNCHANGED <<env_vars, hist_vars>>
    /\ UNCHANGED obs_vars

\* events.poll_recv returns Pending: handle_events returns false.
EventsPending ==
    /\ pc = "events"
    /\ ev_count < IO_LOOP_BOUND
    /\ events = <<>>
    /\ pc' = "send"
    /\ UNCHANGED <<state_vars, env_vars, hist_vars>>
    /\ UNCHANGED <<now, keep_going, batch, decision, ev_count, up_todo, up_cur,
                   last_err, to_remove, poll_result>>
    /\ UNCHANGED obs_vars

\* IO_LOOP_BOUND events were handled: handle_events returns true.
EventsBound ==
    /\ pc = "events"
    /\ ev_count = IO_LOOP_BOUND
    /\ pc' = "send"
    /\ keep_going' = TRUE
    /\ UNCHANGED <<state_vars, env_vars, hist_vars>>
    /\ UNCHANGED <<now, batch, decision, ev_count, up_todo, up_cur, last_err,
                   to_remove, poll_result>>
    /\ UNCHANGED obs_vars

\* ---- drive_send (endpoint.rs:560-597)
\* Faulty variant: it assigns keep_going instead of or-ing into it.
SendReturn_Assign(more) ==
    /\ pc' = "uprecv"
    /\ keep_going' = more
    /\ up_todo' = DOMAIN upstream_connections
    /\ up_cur' = NoAddr
    /\ last_err' = FALSE

\* drive_send returns Ok(more); upstream_recv starts its pass over the table.
SendReturn(more) ==
    /\ pc' = "uprecv"
    /\ keep_going' = (keep_going \/ more)
    /\ up_todo' = DOMAIN upstream_connections
    /\ up_cur' = NoAddr
    /\ last_err' = FALSE

SendEmpty ==
    /\ pc = "send"
    /\ outgoing = <<>>
    /\ SendReturn(FALSE)
    /\ UNCHANGED <<state_vars, env_vars, hist_vars>>
    /\ UNCHANGED <<now, batch, decision, ev_count, to_remove, poll_result>>
    /\ UNCHANGED obs_vars

\* The send limiter's budget is spent.
SendDeny ==
    /\ pc = "send"
    /\ outgoing # <<>>
    /\ SendReturn(TRUE)
    /\ UNCHANGED <<state_vars, env_vars, hist_vars>>
    /\ UNCHANGED <<now, batch, decision, ev_count, to_remove, poll_result>>
    /\ UNCHANGED obs_vars

\* poll_send took the first n transmits.
SendOk(n) ==
    /\ pc = "send"
    /\ outgoing # <<>>
    /\ n \in 1..Len(outgoing)
    /\ DrainSent(n)
    /\ sent' = sent + n
    /\ UNCHANGED <<socket, ipv6, incoming, driver, senders, close, events,
                   ref_count, driver_lost, upstream_connections, max_queue_len>>
    /\ UNCHANGED <<poll_vars, env_vars, inserted, accepted>>
    /\ UNCHANGED obs_vars

SendPending ==
    /\ pc = "send"
    /\ outgoing # <<>>
    /\ SendReturn(FALSE)
    /\ UNCHANGED <<state_vars, env_vars, hist_vars>>
    /\ UNCHANGED <<now, batch, decision, ev_count, to_remove, poll_result>>
    /\ UNCHANGED obs_vars

SendErr ==
    /\ pc = "send"
    /\ outgoing # <<>>
    /\ ReturnErr
    /\ UNCHANGED <<state_vars, env_vars, hist_vars>>
    /\ UNCHANGED obs_vars

\* ---- upstream_recv (endpoint.rs:640-712)
\* The for loop reaches the next entry of the table, in the map's order.
UpPick(a) ==
    /\ pc \in {"uprecv", "upsend"}
    /\ up_cur = NoAddr
    /\ a \in up_todo
    /\ up_cur' = a
    /\ up_todo' = up_todo \ {a}
    /\ UNCHANGED <<state_vars, env_vars, hist_vars>>
    /\ UNCHANGED <<pc, now, keep_going, batch, decision, ev_count, last_err,
                   to_remove, poll_result>>
    /\ UNCHANGED obs_vars

\* Faulty variant: it addresses the relayed segment to the upstream server.
RelayDestination_Upstream(remote) == upstream_connections[remote].upstream_addr

\* endpoint.rs:668, destination: remote.clone()
RelayDestination(remote) == remote

\* The entry's socket returns a segment: admission, then active_time = now.
UpRecvOk(len) ==
    /\ pc = "uprecv"
    /\ up_cur # NoAddr
    /\ AdmitTransmit(Transmit(RelayDestination(up_cur), len, TRUE))
    /\ upstream_connections' =
           [upstream_connections EXCEPT ![up_cur].active_time = now]
    /\ UNCHANGED <<socket, ipv6, incoming, driver, senders, close, events,
                   ref_count, driver_lost, max_queue_len>>
    /\ UNCHANGED <<poll_vars, env_vars, hist_vars>>
    /\ UNCHANGED obs_vars

\* endpoint.rs:686, the idle test of upstream_recv
RecvIdle(conn) == now - conn.active_time > IDLE_SECS

\* Pending: an idle entry is pushed on the local to_remove, which is never
\* applied (endpoint.rs:703-706 is commented out); the loop goes on.
UpRecvPending ==
    /\ pc = "uprecv"
    /\ up_cur # NoAddr
    /\ to_remove' = IF RecvIdle(upstream_connections[up_cur])
                    THEN to_remove \cup {up_cur} ELSE to_remove
    /\ up_cur' = NoAddr
    /\ UNCHANGED <<state_vars, env_vars, hist_vars>>
    /\ UNCHANGED <<pc, now, keep_going, batch, decision, ev_count, up_todo,
                   last_err, poll_result>>
    /\ UNCHANGED obs_vars

\* An error other than ConnectionReset: remembered in last_err, and the
\* entry pushed on the same local to_remove.
UpRecvErr ==
    /\ pc = "uprecv"
    /\ up_cur # NoAddr
    /\ up_cur' = NoAddr
    /\ last_err' = TRUE
    /\ to_remove' = to_remove \cup {up_cur}
    /\ UNCHANGED <<state_vars, env_vars, hist_vars>>
    /\ UNCHANGED <<pc, now, keep_going, batch, decision, ev_count, up_todo,
                   poll_result>>
    /\ UNCHANGED obs_vars

\* endpoint.rs:707-711: Ok(false), and upstream_send starts its pass.
UpRecvDone ==
    /\ pc = "uprecv"
    /\ up_cur = NoAddr
    /\ up_todo = {}
    /\ ~last_err
    /\ pc' = "upsend"
    /\ up_todo' = DOMAIN upstream_connections
    /\ to_remove' = {}
    /\ UNCHANGED <<state_vars, env_vars, hist_vars>>
    /\ UNCHANGED <<now, keep_going, batch, decision, ev_count, up_cur, last_err,
                   poll_result>>
    /\ UNCHANGED obs_vars

\* endpoint.rs:707-708 and :321: Err(e), which `?` returns from poll.
UpRecvFail ==
    /\ pc = "uprecv"
    /\ up_cur = NoAddr
    /\ up_todo = {}
    /\ last_err
    /\ ReturnErr
    /\ UNCHANGED <<state_vars, env_vars, hist_vars>>
    /\ UNCHANGED obs_vars

\* ---- upstream_send (endpoint.rs:713-755)
UpSendEmpty ==
    /\ pc = "upsend"
    /\ up_cur # NoAddr
    /\ upstream_connections[up_cur].to_upstream = <<>>
    /\ up_cur' = NoAddr
    /\ UNCHANGED <<state_vars, env_vars, hist_vars>>
    /\ UNCHANGED <<pc, now, keep_going, batch, decision, ev_count, up_todo,
                   last_err, to_remove, poll_result>>
    /\ UNCHANGED obs_vars

\* poll_send took the first n pending datagrams.
UpSendOk(n) ==
    /\ pc = "upsend"
    /\ up_cur # NoAddr
    /\ LET conn == upstream_connections[up_cur]
       IN /\ n \in 1..Len(conn.to_upstream)
          /\ upstream_connections' =
                 [upstream_connections EXCEPT
                     ![up_cur].to_upstream =
                         SubSeq(conn.to_upstream, n + 1, Len(conn.to_upstream)),
                     ![up_cur].active_time = now]
    /\ UNCHANGED <<socket, ipv6, outgoing, transmit_queue_contents_len, incoming,
                   driver, senders, close, events, ref_count, driver_lost,
                   max_queue_len>>
    /\ UNCHANGED <<poll_vars, env_vars, hist_vars>>
    /\ UNCHANGED obs_vars

\* endpoint.rs:733, the idle test of upstream_send: an Instant against itself
SendIdle(conn) == conn.active_time - conn.active_time > IDLE_SECS

UpSendPending ==
    /\ pc = "upsend"
    /\ up_cur # NoAddr
    /\ upstream_connections[up_cur].to_upstream # <<>>
    /\ to_remove' = IF SendIdle(upstream_connections[up_cur])
                    THEN to_remove \cup {up_cur} ELSE to_remove
    /\ up_cur' = NoAddr
    /\ UNCHANGED <<state_vars, env_vars, hist_vars>>
    /\ UNCHANGED <<pc, now, keep_going, batch, decision, ev_count, up_todo,
                   last_err, poll_result>>
    /\ UNCHANGED obs_vars

UpSendErr ==
    /\ pc = "upsend"
    /\ up_cur # NoAddr
    /\ upstream_connections[up_cur].to_upstream # <<>>
    /\ last_err' = TRUE
    /\ to_remove' = to_remove \cup {up_cur}
    /\ up_cur' = NoAddr
    /\ UNCHANGED <<state_vars, env_vars, hist_vars>>
    /\ UNCHANGED <<pc, now, keep_going, batch, decision, ev_count, up_todo,
                   poll_result>>
    /\ UNCHANGED obs_vars

\* endpoint.rs:748-754: the entries in to_remove are removed, then Ok(false).
UpSendDone ==
    /\ pc = "upsend"
    /\ up_cur = NoAddr
    /\ up_todo = {}
    /\ ~last_err
    /\ upstream_connections' = Remove(upstream_connections, to_remove)
    /\ pc' = "finish"
    /\ to_remove' = {}
    /\ UNCHANGED <<socket, ipv6, outgoing, transmit_queue_contents_len, incoming,
                   driver, senders, close, events, ref_count, driver_lost,
                   max_queue_len>>
    /\ UNCHANGED <<now, keep_going, batch, decision, ev_count, up_todo, up_cur,
                   last_err, poll_result>>
    /\ UNCHANGED <<env_vars, hist_vars>>
    /\ UNCHANGED obs_vars

\* endpoint.rs:748-753 and :322: the removal, then Err(e) returned from poll.
UpSendFail ==
    /\ pc = "upsend"
    /\ up_cur = NoAddr
    /\ up_todo = {}
    /\ last_err
    /\ upstream_connections' = Remove(upstream_connections, to_remove)
    /\ ReturnErr
    /\ UNCHANGED <<socket, ipv6, outgoing, transmit_queue_contents_len, incoming,
                   driver, senders, close, events, ref_count, driver_lost,
                   max_queue_len>>
    /\ UNCHANGED <<env_vars, hist_vars>>
    /\ UNCHANGED obs_vars

\* ---- the end of poll (endpoint.rs:324-340)
\* Faulty variant: it never notifies the accept() futures.
NotifyIncoming_Never(queue, futs) == futs

\* endpoint.rs:324-326
NotifyIncoming(queue, futs) == IF queue # <<>> THEN notify_waiters(futs) ELSE futs

\* Faulty variant: it also waits for the outgoing queue to empty.
DriverFinished_QueueEmpty ==
    ref_count = 0 /\ DOMAIN senders = {} /\ outgoing = <<>>

\* endpoint.rs:328, the driver's termination test
DriverFinished == ref_count = 0 /\ DOMAIN senders = {}

PollFinish ==
    /\ pc = "finish"
    /\ acc' = NotifyIncoming(incoming, acc)
    /\ IF DriverFinished
       THEN LeavePoll("returned", "ok")
       ELSE LeavePoll("parked", IF keep_going THEN "pending_wake" ELSE "pending")
    /\ UNCHANGED <<state_vars, clock, api_handles, idle_fut, hist_vars>>
    /\ UNCHANGED obs_vars

\* ---- Drop for EndpointDriver (endpoint.rs:343-352), when the task's future
\* is dropped: after poll returned Ready, or when the task is cancelled.
DriverDrop ==
    /\ pc \in {"parked", "returned"}
    /\ driver_lost' = TRUE
    /\ acc' = notify_waiters(acc)
    /\ senders' = Remove(senders, DOMAIN senders)
    /\ pc' = "ref_drop"
    /\ UNCHANGED <<socket, ipv6, outgoing, transmit_queue_contents_len, incoming,
                   driver, close, events, ref_count, upstream_connections,
                   max_queue_len>>
    /\ UNCHANGED <<now, keep_going, batch, decision, ev_count, up_todo, up_cur,
                   last_err, to_remove, poll_result>>
    /\ UNCHANGED <<clock, api_handles, idle_fut, hist_vars>>
    /\ UNCHANGED obs_vars

\* Faulty variant: it leaves the stored waker alone, waking no one.
EndpointRef_drop_NoWake ==
    IF ref_count >= 1
    THEN ref_count' = ref_count - 1 /\ driver' = driver
    ELSE UNCHANGED <<ref_count, driver>>

\* Drop for EndpointRef (endpoint.rs:936-950): checked_sub(1), and at zero the
\* stored driver waker is taken and woken.
EndpointRef_drop ==
    IF ref_count >= 1
    THEN /\ ref_count' = ref_count - 1
         /\ driver' = IF ref_count - 1 = 0 THEN FALSE ELSE driver
    ELSE UNCHANGED <<ref_count, driver>>

\* The driver's own EndpointRef is dropped after its Drop has run.
DriverRefDrop ==
    /\ pc = "ref_drop"
    /\ EndpointRef_drop
    /\ pc' = "gone"
    /\ UNCHANGED <<socket, ipv6, outgoing, transmit_queue_contents_len, incoming,
                   senders, close, events, driver_lost, upstream_connections,
                   max_queue_len>>
    /\ UNCHANGED <<now, keep_going, batch, decision, ev_count, up_todo, up_cur,
                   last_err, to_remove, poll_result>>
    /\ UNCHANGED <<env_vars, hist_vars>>
    /\ UNCHANGED obs_vars

\* ------------------------------------------------------ the API calls
\* An API call needs an Endpoint handle and takes the mutex.
ApiCall == Unlocked /\ api_handles >= 1
Futures == {acc[i].st : i \in Acceptors} \cup {idle_fut[w].st : w \in Waiters}

\* Clone for EndpointRef (endpoint.rs:929-934)
CloneHandle ==
    /\ ApiCall
    /\ api_handles < MaxHandleRefs
    /\ api_handles' = api_handles + 1
    /\ ref_count' = ref_count + 1
    /\ UNCHANGED <<socket, ipv6, outgoing, transmit_queue_contents_len, incoming,
                   driver, senders, close, events, driver_lost,
                   upstream_connections, max_queue_len>>
    /\ UNCHANGED <<poll_vars, clock, acc, idle_fut, hist_vars>>
    /\ UNCHANGED obs_vars

\* An Endpoint handle is dropped; a future borrows the handle it came from.
DropHandle ==
    /\ ApiCall
    /\ api_handles >= 2 \/ Futures = {"idle"}
    /\ api_handles' = api_handles - 1
    /\ EndpointRef_drop
    /\ UNCHANGED <<socket, ipv6, outgoing, transmit_queue_contents_len, incoming,
                   senders, close, events, driver_lost, upstream_connections,
                   max_queue_len>>
    /\ UNCHANGED <<poll_vars, clock, acc, idle_fut, hist_vars>>
    /\ UNCHANGED obs_vars

\* Endpoint::connect_with succeeds (endpoint.rs:174-190) with the engine's
\* new handle h; v6 says whether the target is an IPv6 address.
ConnectOk(h, v6) ==
    /\ ApiCall
    /\ ~driver_lost
    /\ ~(v6 /\ ~ipv6)
    /\ h \in Handles \ inserted
    /\ senders' = ConnectionSet_insert(senders, h)
    /\ inserted' = inserted \cup {h}
    /\ UNCHANGED <<socket, ipv6, outgoing, transmit_queue_contents_len, incoming,
                   driver, close, events, ref_count, driver_lost,
                   upstream_connections, max_queue_len>>
    /\ UNCHANGED <<poll_vars, env_vars, sent, accepted>>
    /\ UNCHANGED obs_vars

\* ensure_ipv6 (endpoint.rs:836-841)
ensure_ipv6(x) ==
    IF x.family = "v6" THEN x
    ELSE [family |-> "v6", ip |-> x.ip, mapped |-> TRUE]

\* endpoint.rs:180-184, the address handed to the engine
ConnectAddr(ep_ipv6, target) == IF ep_ipv6 THEN ensure_ipv6(target) ELSE target

\* Faulty variant: it tests the address before driver_lost.
connect_with_result_AddrFirst(lost, ep_ipv6, target, eng) ==
    IF target.family = "v6" /\ ~ep_ipv6 THEN "InvalidRemoteAddress"
    ELSE IF lost THEN "EndpointStopping"
    ELSE IF eng # "Ok" THEN eng
    ELSE "Ok"

\* Faulty variant: it does not test driver_lost.
connect_with_result_NoLostTest(lost, ep_ipv6, target, eng) ==
    IF target.family = "v6" /\ ~ep_ipv6 THEN "InvalidRemoteAddress"
    ELSE IF eng # "Ok" THEN eng
    ELSE "Ok"

\* Endpoint::connect_with, the order of its tests (endpoint.rs:174-185)
connect_with_result(lost, ep_ipv6, target, eng) ==
    IF lost THEN "EndpointStopping"
    ELSE IF target.family = "v6" /\ ~ep_ipv6 THEN "InvalidRemoteAddress"
    ELSE IF eng # "Ok" THEN eng
    ELSE "Ok"

\* Endpoint::connect_with (endpoint.rs:168-191), its result observed; h is
\* the handle the engine would give, eng the engine's answer.
connect_with(h, target, eng) ==
    /\ ApiCall
    /\ h \in Handles \ inserted
    /\ LET res == connect_with_result(driver_lost, ipv6, target, eng)
       IN /\ call_result' =
                 [op |-> "connect_with", res |-> res,
                  h |-> IF res = "Ok" THEN h ELSE 0,
                  addr |-> IF res = "EndpointStopping" THEN NoTarget
                           ELSE IF res = "InvalidRemoteAddress" THEN target
                           ELSE ConnectAddr(ipv6, target)]
          /\ IF res = "Ok"
             THEN /\ senders' = ConnectionSet_insert(senders, h)
                  /\ inserted' = inserted \cup {h}
             ELSE UNCHANGED <<senders, inserted>>
    /\ UNCHANGED <<socket, ipv6, outgoing, transmit_queue_contents_len, incoming,
                   driver, close, events, ref_count, driver_lost,
                   upstream_connections, max_queue_len>>
    /\ UNCHANGED <<poll_vars, env_vars, sent, accepted, reset_seen, rebound>>

\* Endpoint::connect (endpoint.rs:154-161) on an Endpoint that has no default
\* client configuration: the error is returned before the mutex is taken.
connect_NoConfig ==
    /\ api_handles >= 1
    /\ call_result' = [op |-> "connect", res |-> "NoDefaultClientConfig",
                       h |-> 0, addr |-> NoTarget]
    /\ UNCHANGED <<state_vars, poll_vars, env_vars, hist_vars, reset_seen, rebound>>

\* Endpoint::connect with a default configuration goes on to connect_with.
connect(has_config, h, target, eng) ==
    IF has_config THEN connect_with(h, target, eng) ELSE connect_NoConfig

\* Endpoint::rebind fails (endpoint.rs:200-201): local_addr() or
\* wrap_udp_socket() returns an error, before the mutex is taken.
RebindErr ==
    /\ api_handles >= 1
    /\ call_result' = [op |-> "rebind", res |-> "IoError", h |-> 0,
                       addr |-> NoTarget]
    /\ UNCHANGED <<state_vars, poll_vars, env_vars, hist_vars, reset_seen, rebound>>

\* socket.local_addr().is_ipv6() (endpoint.rs:200, 204): socket 2 is bound to
\* an IPv6 address, socket 1 to an IPv4 address.
is_ipv6(s) == s = 2

\* Endpoint::rebind (endpoint.rs:199-213)
Rebind(s) ==
    /\ ApiCall
    /\ s \in Sockets \ {socket}
    /\ ChannelsHaveRoom
    /\ socket' = s
    /\ ipv6' = is_ipv6(s)
    /\ senders' = SendAll(senders, DOMAIN senders, Ping)
    /\ UNCHANGED <<outgoing, transmit_queue_contents_len, incoming, driver, close,
                   events, ref_count, driver_lost, upstream_connections,
                   max_queue_len>>
    /\ UNCHANGED <<poll_vars, env_vars, hist_vars>>
    /\ rebound' = TRUE
    /\ UNCHANGED <<call_result, reset_seen>>

\* Endpoint::close (endpoint.rs:252-264)
Close(c) ==
    /\ ApiCall
    /\ ChannelsHaveRoom
    /\ close' = c
    /\ senders' = SendAll(senders, DOMAIN senders, CloseEvent(c))
    /\ acc' = notify_waiters(acc)
    /\ UNCHANGED <<socket, ipv6, outgoing, transmit_queue_contents_len, incoming,
                   driver, events, ref_count, driver_lost, upstream_connections,
                   max_queue_len>>
    /\ UNCHANGED <<poll_vars, clock, api_handles, idle_fut, hist_vars>>
    /\ UNCHANGED obs_vars

\* ---- accept() (endpoint.rs:134-139 and 852-877)
AcceptCall(i) ==
    /\ ApiCall
    /\ acc[i].st = "idle"
    /\ acc' = [acc EXCEPT ![i] = [st |-> "created", res |-> 0]]
    /\ UNCHANGED <<state_vars, poll_vars, clock, api_handles, idle_fut, hist_vars>>
    /\ UNCHANGED obs_vars

\* Faulty variant: it looks at the queue before driver_lost.
Accept_outcome_QueueFirst(lost, queue, closed) ==
    IF queue # <<>> THEN "some"
    ELSE IF lost \/ closed # NoClose THEN "none"
    ELSE "pending"

\* Accept::poll, the order of its tests (endpoint.rs:857-869)
Accept_outcome(lost, queue, closed) ==
    IF lost THEN "none"
    ELSE IF queue # <<>> THEN "some"
    ELSE IF closed # NoClose THEN "none"
    ELSE "pending"

\* Faulty variant: it reads the front of the queue and leaves it there.
pop_front_Front(queue) == queue

\* endpoint.rs:861, incoming.pop_front(): the queue without its first entry
pop_front(queue) == Tail(queue)

\* The runtime polls a new or woken accept() future.
AcceptPoll(i) ==
    /\ Unlocked
    /\ acc[i].st \in {"created", "woken"}
    /\ LET out == Accept_outcome(driver_lost, incoming, close)
       IN /\ acc' = [acc EXCEPT ![i] =
                 IF out = "none" THEN [st |-> "done", res |-> 0]
                 ELSE IF out = "some" THEN [st |-> "done", res |-> Head(incoming)]
                 ELSE [st |-> "parked", res |-> 0]]
          /\ incoming' = IF out = "some" THEN pop_front(incoming) ELSE incoming
    /\ UNCHANGED <<socket, ipv6, outgoing, transmit_queue_contents_len, driver,
                   senders, close, events, ref_count, driver_lost,
                   upstream_connections, max_queue_len>>
    /\ UNCHANGED <<poll_vars, clock, api_handles, idle_fut, hist_vars>>
    /\ UNCHANGED obs_vars

\* The caller takes the result of a completed accept().
AcceptDone(i) ==
    /\ acc[i].st = "done"
    /\ Unlocked
    /\ acc' = [acc EXCEPT ![i] = [st |-> "idle", res |-> 0]]
    /\ UNCHANGED <<state_vars, poll_vars, clock, api_handles, idle_fut, hist_vars>>
    /\ UNCHANGED obs_vars

\* ---- wait_idle() (endpoint.rs:276-288)
WaitIdleCall(w) ==
    /\ ApiCall
    /\ idle_fut[w].st = "idle"
    /\ idle_fut' = [idle_fut EXCEPT ![w] = [st |-> "created"]]
    /\ UNCHANGED <<state_vars, poll_vars, clock, api_handles, acc, hist_vars>>
    /\ UNCHANGED obs_vars

\* ConnectionSet::is_empty (endpoint.rs:831-833)
is_empty(s) == DOMAIN s = {}

\* One turn of the loop: done when the set is empty, else wait on `idle`.
WaitIdlePoll(w) ==
    /\ Unlocked
    /\ idle_fut[w].st \in {"created", "woken"}
    /\ idle_fut' = [idle_fut EXCEPT ![w] =
           IF is_empty(senders) THEN [st |-> "done"] ELSE [st |-> "parked"]]
    /\ UNCHANGED <<state_vars, poll_vars, clock, api_handles, acc, hist_vars>>
    /\ UNCHANGED obs_vars

WaitIdleDone(w) ==
    /\ idle_fut[w].st = "done"
    /\ Unlocked
    /\ idle_fut' = [idle_fut EXCEPT ![w] = [st |-> "idle"]]
    /\ UNCHANGED <<state_vars, poll_vars, clock, api_handles, acc, hist_vars>>
    /\ UNCHANGED obs_vars

\* ------------------------------------------- workers and the clock
TransmitEvents == {i \in 1..Len(events) : events[i].kind = "Transmit"}
HasDrained(h) == \E i \in 1..Len(events) : events[i].h = h /\ events[i].kind = "Drained"

\* The worker of connection h sends an event; Drained is its last one.
WorkerSend(h, kind, len) ==
    /\ Unlocked
    /\ ~driver_lost
    /\ h \in inserted
    /\ ~HasDrained(h)
    /\ Len(events) < MaxEvents
    /\ kind = "Transmit" =>
           /\ ~Flood
           /\ len \in Lens
           /\ Len(outgoing) + Cardinality(TransmitEvents) < MaxOutgoing
    /\ kind # "Transmit" => len = 0
    /\ events' = Append(events, WorkerEvent(h, kind, len))
    /\ UNCHANGED <<socket, ipv6, outgoing, transmit_queue_contents_len, incoming,
                   driver, senders, close, ref_count, driver_lost,
                   upstream_connections, max_queue_len>>
    /\ UNCHANGED <<poll_vars, env_vars, hist_vars>>
    /\ UNCHANGED obs_vars

\* The worker of connection h takes the next event from its channel.
WorkerRecv(h) ==
    /\ Unlocked
    /\ h \in DOMAIN senders
    /\ senders[h] # <<>>
    /\ senders' = [senders EXCEPT ![h] = Tail(senders[h])]
    /\ UNCHANGED <<socket, ipv6, outgoing, transmit_queue_contents_len, incoming,
                   driver, close, events, ref_count, driver_lost,
                   upstream_connections, max_queue_len>>
    /\ UNCHANGED <<poll_vars, env_vars, hist_vars>>
    /\ UNCHANGED obs_vars

Tick ==
    /\ Unlocked
    /\ clock + TickSecs <= MaxClock
    /\ clock' = clock + TickSecs
    /\ UNCHANGED <<state_vars, poll_vars, api_handles, acc, idle_fut, hist_vars>>
    /\ UNCHANGED obs_vars

\* ------------------------------------------------------ specifications
EmptyMap == [k \in {} |-> <<>>]

\* EndpointRef::new and Endpoint::new_with_abstract_socket
\* (endpoint.rs:103-128, 883-926): one handle, and the driver spawned.
InitFor(caps, futures) ==
    /\ socket = 1
    /\ ipv6 = FALSE
    /\ outgoing = <<>>
    /\ transmit_queue_contents_len = 0
    /\ incoming = <<>>
    /\ driver = FALSE
    /\ senders = EmptyMap
    /\ close = NoClose
    /\ events = <<>>
    /\ ref_count = 1
    /\ driver_lost = FALSE
    /\ upstream_connections = EmptyMap
    /\ max_queue_len \in caps
    /\ pc = "parked"
    /\ now = 0
    /\ keep_going = FALSE
    /\ batch = <<>>
    /\ decision = NoDecision
    /\ ev_count = 0
    /\ up_todo = {}
    /\ up_cur = NoAddr
    /\ last_err = FALSE
    /\ to_remove = {}
    /\ poll_result = "none"
    /\ clock = 0
    /\ api_handles = 1
    /\ acc = [i \in futures |-> [st |-> "idle", res |-> 0]]
    /\ idle_fut = [w \in Waiters |-> [st |-> "idle"]]
    /\ inserted = {}
    /\ sent = 0
    /\ accepted = {}
    /\ call_result = NoCall
    /\ reset_seen = FALSE
    /\ rebound = FALSE

InitWith(caps) == InitFor(caps, Acceptors)

Init == InitWith({QueueCap})

\* The steps of a driver poll that every run takes.
PollSteps ==
    \/ PollBegin
    \/ RecvPollPending
    \/ RecvPollErr
    \/ EventsPending
    \/ SendEmpty
    \/ UpRecvDone
    \/ UpSendDone
    \/ PollFinish
    \/ DriverDrop
    \/ DriverRefDrop

\* The steps of drive_recv on a batch, but for the engine's answer.
RecvSteps(batches) ==
    \/ \E b \in batches : RecvPollOk(b)
    \/ RecvAct
    \/ RecvAllow
    \/ RecvDeny

QueueSteps ==
    \/ SendDeny
    \/ \E n \in 1..MaxOutgoing + QueueCap : SendOk(n)
    \/ SendPending
    \/ SendErr
    \/ EventTransmit

ForwardSteps ==
    \/ RecvForward
    \/ RecvActBindErr
    \/ \E a \in Addrs : UpPick(a)
    \/ \E l \in EnvLens : UpRecvOk(l)
    \/ UpRecvPending
    \/ UpRecvErr
    \/ UpRecvFail
    \/ UpSendEmpty
    \/ \E n \in 1..MaxPending : UpSendOk(n)
    \/ UpSendPending
    \/ UpSendErr
    \/ UpSendFail

AllDecisions == {"None", "Response", "NewConnection", "ConnectionEvent", "NewForward"}

Next ==
    \/ PollSteps
    \/ RecvSteps(Batches)
    \/ EventsBound
    \/ QueueSteps
    \/ ForwardSteps
    \/ RecvOffer(AllDecisions)
    \/ EventDrained
    \/ EventDrainedFollowUp
    \/ \E f \in BOOLEAN : EventProto(f)
    \/ CloneHandle
    \/ DropHandle
    \/ \E h \in Handles, v6 \in BOOLEAN : ConnectOk(h, v6)
    \/ \E c \in BOOLEAN, h \in Handles, t \in Targets, e \in EngineAnswers :
           connect(c, h, t, e)
    \/ \E s \in Sockets : Rebind(s)
    \/ RebindErr
    \/ RecvPollReset
    \/ \E c \in CloseCodes : Close(c)
    \/ \E i \in Acceptors : AcceptCall(i) \/ AcceptPoll(i) \/ AcceptDone(i)
    \/ \E w \in Waiters : WaitIdleCall(w) \/ WaitIdlePoll(w) \/ WaitIdleDone(w)
    \/ \E h \in Handles, k \in {"Proto", "Drained"} : WorkerSend(h, k, 0)
    \/ \E h \in Handles, l \in Lens : WorkerSend(h, "Transmit", l)
    \/ \E h \in Handles : WorkerRecv(h)
    \/ Tick

Spec == Init /\ [][Next]_vars

\* The queue runs: engine responses, one connection's transmits, forwarded
\* flows relayed from upstream, and the socket taking transmits.
NextQueue ==
    \/ PollSteps
    \/ RecvSteps(UnitBatches)
    \/ EventsBound
    \/ QueueSteps
    \/ ForwardSteps
    \/ RecvOffer({"None", "Response", "NewForward"})
    \/ ConnectOk(1, FALSE)
    \/ \E l \in Lens : WorkerSend(1, "Transmit", l)

SpecQueue == InitWith({QueueCap, FloodCap}) /\ [][NextQueue]_vars

\* The registry runs: connections are inserted by connect and by the engine
\* and removed when drained, the endpoint is closed and rebound to the IPv6
\* socket, the Endpoint handle is dropped, and the driver ends or is dropped.
NextRegistry ==
    \/ PollSteps
    \/ RecvSteps(UnitBatches)
    \/ EventsBound
    \/ RecvOffer({"NewConnection", "ConnectionEvent"})
    \/ EventDrained
    \/ DropHandle
    \/ \E h \in Handles : ConnectOk(h, FALSE)
    \/ Rebind(2)
    \/ \E c \in CloseCodes : Close(c)
    \/ \E h \in Handles : WorkerSend(h, "Drained", 0)
    \/ \E h \in Handles : WorkerRecv(h)

SpecRegistry == Init /\ [][NextRegistry]_vars

\* The accept runs: the engine accepts connections, accept() futures are
\* created and polled, the endpoint is closed, and the driver may be dropped.
NextAccept ==
    \/ PollSteps
    \/ RecvSteps(UnitBatches)
    \/ RecvOffer({"None", "NewConnection"})
    \/ \E c \in CloseCodes : Close(c)
    \/ \E i \in Acceptors : AcceptCall(i) \/ AcceptPoll(i) \/ AcceptDone(i)
    \/ \E h \in Handles : WorkerRecv(h)

SpecAccept == Init /\ [][NextAccept]_vars

\* A running poll goes on to its end (it holds the mutex and never blocks);
\* the recv limiter and the socket end the loop of drive_recv; the runtime
\* drops the driver once its poll has returned Ready; and a new or woken
\* accept() future is polled, the mutex being free between two polls.
FairSpecAccept ==
    /\ SpecAccept
    /\ WF_vars(InPoll /\ NextAccept)
    /\ SF_vars(RecvPollPending \/ RecvDeny)
    /\ WF_vars(pc = "returned" /\ DriverDrop)
    /\ \A i \in Acceptors : SF_vars(AcceptPoll(i))

\* The idle runs: connections are made and drain, wait_idle() futures are
\* created and polled, and the driver may be dropped.
NextIdle ==
    \/ PollSteps
    \/ EventDrained
    \/ EventsBound
    \/ \E h \in Handles : ConnectOk(h, FALSE)
    \/ \E w \in Waiters : WaitIdleCall(w) \/ WaitIdlePoll(w) \/ WaitIdleDone(w)
    \/ \E h \in Handles : WorkerSend(h, "Drained", 0)

SpecIdle == Init /\ [][NextIdle]_vars

\* As FairSpecAccept, for the wait_idle() futures.
FairSpecIdle ==
    /\ SpecIdle
    /\ WF_vars(InPoll /\ NextIdle)
    /\ WF_vars(pc = "returned" /\ DriverDrop)
    /\ \A w \in Waiters : SF_vars(WaitIdlePoll(w))

\* The forwarding runs: clients send segments, the engine asks for new
\* forward entries, and the entries' pending datagrams go upstream.
NextFwd ==
    \/ PollSteps
    \/ RecvSteps(Batches)
    \/ RecvOffer({"None", "NewForward"})
    \/ RecvForward
    \/ RecvActBindErr
    \/ \E a \in Addrs : UpPick(a)
    \/ UpRecvPending
    \/ UpSendEmpty
    \/ \E n \in 1..MaxPending : UpSendOk(n)
    \/ UpSendPending
    \/ UpSendErr
    \/ UpSendFail

SpecFwd == Init /\ [][NextFwd]_vars

\* The upstream runs: as the forwarding runs, with the clock advancing, the
\* upstream sockets delivering datagrams and failing, and the endpoint socket
\* taking the relayed datagrams.
NextUpstream ==
    \/ PollSteps
    \/ RecvSteps(AddrBatches)
    \/ RecvOffer({"NewForward"})
    \/ RecvForward
    \/ RecvActBindErr
    \/ \E a \in Addrs : UpPick(a)
    \/ UpRecvPending
    \/ UpSendEmpty
    \/ \E n \in 1..MaxPending : UpSendOk(n)
    \/ UpSendPending
    \/ UpSendErr
    \/ UpSendFail
    \/ Tick
    \/ UpRecvOk(1)
    \/ UpRecvErr
    \/ UpRecvFail
    \/ SendPending
    \/ \E n \in 1..MaxOutgoing + QueueCap : SendOk(n)

SpecUpstream == Init /\ [][NextUpstream]_vars

\* The task of the driver has been woken and not polled since: it was spawned
\* or its stored waker was taken and woken (endpoint.rs:944-946), its last
\* poll woke itself (endpoint.rs:336-338), or the event channel, whose
\* receiver the last poll left registered, holds an event.
DriverWoken ==
    /\ pc = "parked"
    /\ ~driver \/ poll_result = "pending_wake" \/ events # <<>>

\* The shutdown runs: connections are made by connect and by the engine and
\* drain, Endpoint handles are cloned and dropped, and the driver ends.
NextShutdown ==
    \/ PollSteps
    \/ RecvSteps(UnitBatches)
    \/ RecvOffer({"None", "NewConnection"})
    \/ EventDrained
    \/ EventsBound
    \/ CloneHandle
    \/ DropHandle
    \/ \E h \in Handles : ConnectOk(h, FALSE)
    \/ \E h \in Handles : WorkerSend(h, "Drained", 0)

SpecShutdown == Init /\ [][NextShutdown]_vars

\* A running poll goes on to its end, the socket and the recv limiter end
\* the loop of drive_recv, and the runtime polls a woken driver task.
FairSpecShutdown ==
    /\ SpecShutdown
    /\ WF_vars(InPoll /\ NextShutdown)
    /\ SF_vars(RecvPollPending \/ RecvDeny)
    /\ WF_vars(DriverWoken /\ PollBegin)

\* The termination runs: the engine answers with responses, connections and
\* forward entries, connections drain, the sockets are not ready to send,
\* and the Endpoint handle is dropped.
NextTerminate ==
    \/ PollSteps
    \/ RecvSteps(UnitBatches)
    \/ RecvOffer({"Response", "NewConnection", "NewForward"})
    \/ RecvForward
    \/ EventDrained
    \/ EventsBound
    \/ SendPending
    \/ \E a \in Addrs : UpPick(a)
    \/ UpRecvPending
    \/ UpSendPending
    \/ DropHandle
    \/ \E h \in Handles : WorkerSend(h, "Drained", 0)

SpecTerminate == Init /\ [][NextTerminate]_vars

\* The connect runs: connect and connect_with with every outcome, on an
\* endpoint that is rebound to the IPv6 socket, whose engine answers with
\* responses and connections, and whose driver ends or is dropped.
NextConnect ==
    \/ PollSteps
    \/ RecvSteps(UnitBatches)
    \/ RecvOffer({"Response", "NewConnection"})
    \/ SendPending
    \/ \E c \in BOOLEAN, h \in Handles, t \in Targets, e \in EngineAnswers :
           connect(c, h, t, e)
    \/ Rebind(2)

SpecConnect == Init /\ [][NextConnect]_vars

\* The driver-drop runs: connections are made, accept() futures wait, the
\* Endpoint handle may be dropped, and the driver ends or is dropped.
NextDrop ==
    \/ PollSteps
    \/ \E c \in BOOLEAN, h \in Handles, t \in Targets, e \in EngineAnswers :
           connect(c, h, t, e)
    \/ \E i \in Acceptors : AcceptCall(i) \/ AcceptPoll(i) \/ AcceptDone(i)
    \/ DropHandle

SpecDrop == Init /\ [][NextDrop]_vars

\* The rebind runs: rebind succeeds and fails on an endpoint with
\* connections, whose workers read their channels and whose engine answers
\* with responses and connections.
NextRebind ==
    \/ PollSteps
    \/ RecvSteps(UnitBatches)
    \/ RecvOffer({"Response", "NewConnection"})
    \/ SendPending
    \/ \E h \in Handles : ConnectOk(h, FALSE)
    \/ \E s \in Sockets : Rebind(s)
    \/ RebindErr
    \/ \E h \in Handles : WorkerRecv(h)

SpecRebind == Init /\ [][NextRebind]_vars

\* The socket runs: the endpoint socket delivers batches, reports
\* ConnectionReset and other errors on recv, and takes transmits, is not
\* ready or fails on send, while the engine answers with responses and
\* connections.
NextSocket ==
    \/ PollSteps
    \/ RecvSteps(UnitBatches)
    \/ RecvOffer({"Response", "NewConnection"})
    \/ RecvPollReset
    \/ \E n \in 1..MaxOutgoing + QueueCap : SendOk(n)
    \/ SendPending
    \/ SendErr

SpecSocket == Init /\ [][NextSocket]_vars

\* The forwarding runs with the clock advancing between the polls.
NextFwdClock ==
    \/ NextFwd
    \/ Tick

SpecFwdClock == Init /\ [][NextFwdClock]_vars

\* The ready runs: both sockets take whatever they are offered, so a datagram
\* offered to a socket has left its queue; connections and the engine feed
\* the queues, upstream sockets deliver datagrams, and accept() futures wait.
NextReady ==
    \/ PollSteps
    \/ RecvSteps(UnitBatches)
    \/ RecvOffer({"NewConnection", "NewForward"})
    \/ RecvForward
    \/ EventTransmit
    \/ EventsBound
    \/ SendDeny
    \/ SendOk(Len(outgoing))
    \/ \E a \in Addrs : UpPick(a)
    \/ UpRecvOk(1)
    \/ UpRecvPending
    \/ UpSendEmpty
    \/ \E n \in 1..MaxPending : UpSendOk(n)
    \/ \E l \in Lens : WorkerSend(1, "Transmit", l)
    \/ \E i \in Acceptors : AcceptCall(i) \/ AcceptPoll(i) \/ AcceptDone(i)

SpecReady == Init /\ [][NextReady]_vars

\* The flood runs: every socket is ready whenever it is asked.  The endpoint
\* socket delivers a batch or reports ConnectionReset at every poll_recv, and
\* the upstream socket of an entry delivers a datagram at every poll_recv.
NextFlood ==
    \/ PollBegin
    \/ \E b \in AddrBatches : RecvPollOk(b)
    \/ RecvPollReset
    \/ RecvOffer({"None", "NewForward"})
    \/ RecvAct
    \/ RecvForward
    \/ RecvAllow
    \/ RecvDeny
    \/ EventsPending
    \/ SendEmpty
    \/ \E a \in Addrs : UpPick(a)
    \/ UpRecvOk(1)
    \/ UpRecvDone
    \/ UpSendDone
    \/ PollFinish
    \/ Tick

SpecFlood == Init /\ [][NextFlood]_vars

\* The code of a poll runs on, each socket call returns, and the recv
\* limiter ends the loop of drive_recv once its budget is spent.
FairSpecFlood ==
    /\ SpecFlood
    /\ WF_vars(InPoll /\ NextFlood)
    /\ SF_vars(RecvDeny)

\* The lookup runs: the registry runs, with workers sending events that the
\* engine answers or not with a follow-up, drained events included.
NextLookup ==
    \/ NextRegistry
    \/ EventDrainedFollowUp
    \/ \E f \in BOOLEAN : EventProto(f)
    \/ \E h \in Handles : WorkerSend(h, "Proto", 0)

SpecLookup == Init /\ [][NextLookup]_vars

\* A datagram waiting on the endpoint socket wakes the parked driver when the
\* driver's latest poll_recv, which returned Pending and left its waker with
\* the socket (endpoint.rs:438, 538-540), was made on the socket that is now
\* the endpoint's: a socket put in by rebind holds no waker of the driver.
SocketWakes == pc = "parked" /\ poll_result = "pending" /\ ~rebound

\* The rebound runs: the endpoint is rebound while the engine accepts
\* connections, whose workers read their channels and answer a Ping with a
\* transmit, and datagrams keep arriving on the endpoint's socket.
NextRebound ==
    \/ PollSteps
    \/ RecvSteps(UnitBatches)
    \/ RecvOffer({"None", "NewConnection"})
    \/ EventTransmit
    \/ EventsBound
    \/ SendOk(Len(outgoing))
    \/ \E s \in Sockets : Rebind(s)
    \/ \E h \in Handles : WorkerRecv(h)
    \/ \E h \in Handles : WorkerSend(h, "Transmit", 1)

SpecRebound == Init /\ [][NextRebound]_vars

\* A running poll goes on to its end, the socket and the recv limiter end
\* the loop of drive_recv, and the runtime polls the driver task when it was
\* woken, a datagram waiting on a socket that holds its waker included.
FairSpecRebound ==
    /\ SpecRebound
    /\ WF_vars(InPoll /\ NextRebound)
    /\ SF_vars(RecvPollPending \/ RecvDeny)
    /\ WF_vars((DriverWoken \/ SocketWakes) /\ PollBegin)

\* Two accept() futures that tasks of the application hold at the same time.
Racers == {1, 2}

\* The race runs: the engine accepts connections, two accept() futures are
\* created and polled in any order between the driver's polls, the endpoint
\* is closed, and the driver may be dropped.
NextRace ==
    \/ PollSteps
    \/ RecvSteps(UnitBatches)
    \/ RecvOffer({"None", "NewConnection"})
    \/ \E c \in CloseCodes : Close(c)
    \/ \E i \in Racers : AcceptCall(i) \/ AcceptPoll(i) \/ AcceptDone(i)

SpecRace == InitFor({QueueCap}, Racers) /\ [][NextRace]_vars

\* ------------------------------------------------ the outgoing queue
LimitedBytes == SumLen(SelectSeq(outgoing, LAMBDA t : t.limited))
LargestLen == CHOOSE l \in EnvLens : \A m \in EnvLens : m <= l
Kinds(q) == {q[i].limited : i \in 1..Len(q)}

\* C1: whenever the mutex is released, the byte counter equals the sum of the
\* payload lengths of the transmits in the outgoing queue.
C1_BytesMatchQueue ==
    Unlocked => transmit_queue_contents_len = SumLen(outgoing)

\* A poll has ended in which the socket took transmits and which left
\* admitted and connection transmits in the queue.
C1_Witness ==
    /\ Unlocked
    /\ sent >= 1
    /\ Kinds(outgoing) = {TRUE, FALSE}
    /\ transmit_queue_contents_len >= 2

\* C2 as stated: the queued bytes never exceed the cap plus the largest
\* single transmit.
C2_TotalBounded ==
    transmit_queue_contents_len <= max_queue_len + LargestLen

\* C2, amended: the bytes of the transmits that passed the admission check
\* never exceed the cap minus one plus the largest single transmit, and the
\* counter stays above them by the connections' transmits, which are
\* enqueued without a check.
C2_AdmittedBounded ==
    /\ LimitedBytes <= max_queue_len - 1 + LargestLen
    /\ LimitedBytes <= transmit_queue_contents_len

\* The admitted bytes are at their bound and a connection's transmit is
\* queued on top of them.
C2_Witness ==
    /\ LimitedBytes = max_queue_len - 1 + LargestLen
    /\ transmit_queue_contents_len > LimitedBytes

\* C3: a Response is appended exactly when the byte counter is below the cap
\* at that moment (with any length), and is dropped with the queue unchanged
\* otherwise; with a cap of 1024 and 200-byte responses the queue takes the
\* response exactly while it holds fewer than 6.
C3_ResponseAdmission ==
    [][(pc = "recv_act" /\ decision.kind = "Response") =>
          /\ IF transmit_queue_contents_len < max_queue_len
             THEN /\ outgoing' =
                         Append(outgoing, Transmit(decision.dst, decision.len, TRUE))
                  /\ transmit_queue_contents_len' =
                         transmit_queue_contents_len + decision.len
             ELSE UNCHANGED <<outgoing, transmit_queue_contents_len>>
          /\ (Flood /\ Kinds(outgoing) \subseteq {TRUE}) =>
                 (outgoing' # outgoing <=> Len(outgoing) < 6)
      ]_vars

\* A response of length 2 was admitted one byte below the cap, and the next
\* response is about to be dropped.
C3_Witness ==
    /\ ~Flood
    /\ pc = "recv_act"
    /\ decision.kind = "Response"
    /\ Kinds(outgoing) = {TRUE}
    /\ transmit_queue_contents_len = max_queue_len + 1

\* ------------------------------------------------------ the registry
\* C4 as stated: at every release of the mutex the keys of senders are the
\* handles inserted and not drained since, whatever the operation.
C4_AsStated == Unlocked => DOMAIN senders = inserted

\* C4, amended: at every release of the mutex the keys of senders are the
\* handles inserted and not drained since, until the driver is dropped;
\* dropping the driver clears senders, which is empty from then on.
C4_RegistryMatches ==
    Unlocked => DOMAIN senders = IF driver_lost THEN {} ELSE inserted

\* Two connections were inserted, one of them has drained, and the driver
\* was dropped with the other one registered.
C4_Witness ==
    /\ Unlocked
    /\ driver_lost
    /\ Cardinality(inserted) = 1
    /\ events = <<>>
    /\ poll_result = "pending_wake"

\* C5: close(c, r) records the pair and appends Close to the channel of every
\* registered connection, removing none and leaving outgoing alone; from
\* then on a close stays recorded, and every channel created by an insert
\* (connect or NewConnection) holds Close with the recorded pair as its only
\* and hence first event; events are appended behind and taken in front.
C5_CloseCascade ==
    [][/\ close' # close =>
              /\ close' # NoClose
              /\ DOMAIN senders' = DOMAIN senders
              /\ \A k \in DOMAIN senders :
                     senders'[k] = Append(senders[k], CloseEvent(close'))
              /\ UNCHANGED <<outgoing, transmit_queue_contents_len, incoming>>
       /\ close # NoClose => close' # NoClose
       /\ \A h \in DOMAIN senders' \ DOMAIN senders :
              senders'[h] = IF close # NoClose THEN <<CloseEvent(close)>> ELSE <<>>
       /\ \A k \in DOMAIN senders' \cap DOMAIN senders :
              \/ senders'[k] = senders[k]
              \/ senders[k] # <<>> /\ senders'[k] = Tail(senders[k])
              \/ \E ev \in {Ping, ProtoEvent, CloseEvent(close')} :
                     senders'[k] = Append(senders[k], ev)
      ]_vars

\* The endpoint was closed with a connection registered, and the engine
\* then accepted another in the running poll: its channel holds the Close.
C5_Witness ==
    /\ InPoll
    /\ close # NoClose
    /\ \E h \in accepted :
           /\ h \in DOMAIN senders
           /\ senders[h] = <<CloseEvent(close)>>
           /\ DOMAIN senders # {h}

\* ------------------------------------------------------ accept()
\* C6: once driver_lost is set, a poll of an accept() future completes it
\* with None and leaves the queue of accepted connections as it is, no
\* accept() future is left waiting, and a future that was pending when the
\* driver was dropped is eventually completed with None.
C6_LostResolvesNone ==
    /\ [][\A i \in Acceptors :
              (driver_lost /\ acc[i].st \in {"created", "woken"} /\ acc'[i] # acc[i])
                  => /\ acc'[i] = [st |-> "done", res |-> 0]
                     /\ incoming' = incoming]_vars
    /\ [](driver_lost => \A i \in Acceptors : acc[i].st # "parked")
    /\ \A i \in Acceptors :
           (driver_lost /\ acc[i].st \in {"created", "woken"})
               ~> (acc[i].st = "done" /\ acc[i].res = 0)

\* An accept() was pending when the driver was dropped, with an accepted
\* connection still queued.
C6_Witness ==
    /\ driver_lost
    /\ incoming # <<>>
    /\ \E i \in Acceptors : acc[i].st = "woken"

\* C7 as stated: once a close is recorded, a poll of an accept() future
\* completes it with None, whatever incoming holds.
C7_ClosedResolvesNone ==
    [][\A i \in Acceptors :
           (close # NoClose /\ acc[i].st \in {"created", "woken"} /\ acc'[i] # acc[i])
               => acc'[i] = [st |-> "done", res |-> 0]]_vars

\* C8: a NewConnection decision registers the handle and pushes its entry at
\* the back of incoming; when the poll ends, the connections accepted in
\* it are registered, their entries are the last of incoming, and no
\* accept() future is left waiting; and a future that was pending, with the
\* entry first in the queue, is eventually completed with that connection
\* unless the driver is lost.
C8_ServerAccept ==
    /\ [][/\ (pc = "recv_act" /\ decision.kind = "NewConnection") =>
                 /\ decision.h \in DOMAIN senders'
                 /\ incoming' = Append(incoming, decision.h)
          /\ (pc = "finish" /\ pc' # "finish" /\ accepted # {}) =>
                 /\ accepted \subseteq DOMAIN senders'
                 /\ Len(incoming') >= Cardinality(accepted)
                 /\ accepted = {incoming'[n] :
                        n \in (Len(incoming') - Cardinality(accepted) + 1)
                                  ..Len(incoming')}
                 /\ \A i \in Acceptors : acc'[i].st # "parked"]_vars
    /\ \A h \in Handles, i \in Acceptors :
           (InPoll /\ acc[i].st = "parked" /\ h \in accepted
                /\ incoming # <<>> /\ Head(incoming) = h)
               ~> ((acc[i].st = "done" /\ acc[i].res = h) \/ driver_lost)

\* An accept() future was waiting when a poll accepted the connection now
\* first in the queue; the poll has ended and has woken the future.
C8_Witness ==
    /\ Unlocked
    /\ ~driver_lost
    /\ close = NoClose
    /\ poll_result = "pending_wake"
    /\ incoming # <<>>
    /\ Head(incoming) \in accepted
    /\ \E i \in Acceptors : acc[i].st = "woken"

\* ------------------------------------------------------ wait_idle()
\* C10 as stated, for the driver being dropped: a wait_idle() that is
\* pending while the registry is empty is eventually completed.
C10_IdleCompletes ==
    \A w \in Waiters :
        (driver_lost /\ is_empty(senders) /\ idle_fut[w].st \in {"created", "parked", "woken"})
            ~> (idle_fut[w].st = "done")

\* ------------------------------------------------------ forwarding
\* C9: the segments of a batch are handled in arrival order, each by the
\* forward table's membership of its source when its turn comes.  A segment
\* from a key of the table is appended to the back of that entry's pending
\* queue and the engine is not asked; any other segment is offered to the
\* engine, once, and is appended to no pending queue: handling the engine's
\* answer leaves every entry as it is, and only a NewForward answer adds an
\* entry, holding the engine's initial payload.
C9_ExclusiveRouting ==
    [][LET seg == Head(batch)
           a == seg.addr
           uc == upstream_connections
       IN /\ (pc = "recv_batch" /\ batch # <<>> /\ a \in DOMAIN uc) =>
                 /\ pc' = "recv_batch"
                 /\ decision' = NoDecision
                 /\ batch' = Tail(batch)
                 /\ DOMAIN uc' = DOMAIN uc
                 /\ uc'[a].to_upstream =
                        Append(uc[a].to_upstream,
                               [dst |-> uc[a].upstream_addr, len |-> seg.len])
                 /\ \A b \in DOMAIN uc \ {a} : uc'[b] = uc[b]
          /\ (pc = "recv_batch" /\ batch # <<>> /\ a \notin DOMAIN uc) =>
                 /\ pc' = "recv_act"
                 /\ decision' # NoDecision
                 /\ batch' = batch
                 /\ uc' = uc
          /\ pc = "recv_act" =>
                 /\ a \notin DOMAIN uc
                 /\ pc' = "returned" \/ (pc' = "recv_batch" /\ batch' = Tail(batch))
                 /\ \A b \in DOMAIN uc : b \in DOMAIN uc' /\ uc'[b] = uc[b]
                 /\ \A b \in DOMAIN uc' \ DOMAIN uc :
                        /\ decision.kind = "NewForward"
                        /\ b = a
                        /\ uc'[b].to_upstream =
                               <<[dst |-> decision.up, len |-> decision.len]>>
      ]_vars

\* In the endpoint's first poll a segment made the engine ask for a forward
\* entry, and a later segment from the same address was put behind the
\* initial payload, while the other address has no entry.
C9_Witness ==
    /\ pc = "recv_batch"
    /\ batch = <<>>
    /\ poll_result = "none"
    /\ DOMAIN upstream_connections = {1}
    /\ Len(upstream_connections[1].to_upstream) = 2

\* ------------------------------------------------ the forward table's upkeep
\* The entries a step removes from the forward table.
Evicted == DOMAIN upstream_connections \ DOMAIN upstream_connections'

\* C11: an entry whose last activity is more than 30 s before the poll's now,
\* and whose upstream socket returned Pending, is out of the table when that
\* poll returns (every entry left by a poll without error is then within 30 s
\* of the poll's now); and an entry within 30 s is removed only in a pass in
\* which an upstream socket failed.
C11_IdleEvicted ==
    /\ [](Unlocked /\ poll_result \in {"pending", "pending_wake", "ok"} =>
             \A a \in DOMAIN upstream_connections :
                 ~RecvIdle(upstream_connections[a]))
    /\ [][(\E a \in Evicted : ~RecvIdle(upstream_connections[a])) => last_err]_vars

\* An upstream pass has ended with an error remembered in last_err.
UpstreamFailed ==
    pc \in {"uprecv", "upsend"} /\ up_cur = NoAddr /\ up_todo = {} /\ last_err

\* C12: an error of one entry's upstream socket, on recv or on send, evicts
\* that entry and nothing else: the other entries, the registry, incoming
\* and outgoing are untouched, and the poll does not return the error, so the
\* driver is not terminated.
C12_UpstreamErrorIsolated ==
    [][UpstreamFailed =>
          /\ \A a \in to_remove : a \notin DOMAIN upstream_connections'
          /\ \A a \in DOMAIN upstream_connections \ to_remove :
                 /\ a \in DOMAIN upstream_connections'
                 /\ upstream_connections'[a] = upstream_connections[a]
          /\ UNCHANGED <<senders, incoming, outgoing>>
          /\ pc' # "returned"
          /\ poll_result' # "err"]_vars

\* ------------------------------------------------ the end of the driver
\* The driver's future has completed or has been dropped.
DriverEnded == pc \in {"returned", "ref_drop", "gone"}

\* C13: with ref_count 0 and a connection registered, a poll that reaches its
\* end returns Pending; once the drained event of the only registered
\* connection is in the event channel the driver is polled and its future
\* completes, with Ok unless the socket fails, the task is cancelled or the
\* engine accepts another connection first; and when the last handle is
\* gone while the registry is empty a parked driver has been woken, and
\* its future completes likewise.
C13_TwoSidedShutdown ==
    /\ [][(pc = "finish" /\ pc' # "finish" /\ ref_count = 0
             /\ DOMAIN senders # {}) =>
              pc' = "parked" /\ poll_result' \in {"pending", "pending_wake"}]_vars
    /\ [](pc = "parked" /\ ref_count = 0 /\ DOMAIN senders = {} => DriverWoken)
    /\ \A h \in Handles :
           (ref_count = 0 /\ DOMAIN senders = {h} /\ HasDrained(h) /\ ~DriverEnded)
               ~> \/ pc = "returned" /\ poll_result = "ok"
                  \/ DriverEnded /\ poll_result # "ok"
                  \/ DOMAIN senders \ {h} # {}
    /\ (pc = "parked" /\ ref_count = 0 /\ DOMAIN senders = {})
           ~> \/ pc = "returned" /\ poll_result = "ok"
              \/ DriverEnded /\ poll_result # "ok"
              \/ DOMAIN senders # {}

\* The last handle was dropped while a connection was registered, the driver
\* has been polled since and is parked, and that connection, the only one,
\* has sent its drained event.
C13_Witness ==
    /\ pc = "parked"
    /\ ref_count = 0
    /\ driver
    /\ poll_result = "pending"
    /\ \E h \in Handles : DOMAIN senders = {h} /\ HasDrained(h)

\* C14: a poll that has run all its pipelines without error returns
\* Ready(Ok(())) if ref_count is 0 and the registry is empty and Pending
\* otherwise, whatever outgoing, incoming and the forward table hold; and
\* Ready(Ok(())) is returned by no other path.
C14_TerminationTest ==
    /\ [][(pc = "finish" /\ pc' # "finish") =>
              IF ref_count = 0 /\ DOMAIN senders = {}
              THEN pc' = "returned" /\ poll_result' = "ok"
              ELSE pc' = "parked" /\ poll_result' \in {"pending", "pending_wake"}]_vars
    /\ [][(poll_result' = "ok" /\ pc' = "returned" /\ pc # "returned") =>
              pc = "finish" /\ ref_count = 0 /\ DOMAIN senders = {}]_vars

\* The driver returned Ready(Ok(())) while outgoing, incoming and a pending
\* queue of the forward table were not empty.
C14_Witness ==
    /\ pc = "returned"
    /\ poll_result = "ok"
    /\ outgoing # <<>>
    /\ incoming # <<>>
    /\ \E a \in DOMAIN upstream_connections :
           upstream_connections[a].to_upstream # <<>>

\* ------------------------------------------------ connect and rebind
\* C15: connect without a default configuration returns
\* NoDefaultClientConfig; connect_with returns EndpointStopping when
\* driver_lost is set, whatever the target; else InvalidRemoteAddress for an
\* IPv6 target on an IPv4 endpoint; else the engine's error as it is; each
\* error leaves the registry, incoming and outgoing as they were.  On
\* success the one new handle is registered and returned, the other channels
\* are untouched, and the engine was given the target, IPv4-mapped when the
\* endpoint is in ipv6 mode and the target is IPv4.
C15_ConnectOutcomes ==
    [][(call_result' # call_result \/ inserted' # inserted) =>
       \A c \in BOOLEAN, h \in Handles, t \in Targets, e \in EngineAnswers :
          connect(c, h, t, e) =>
              LET r == call_result'
                  v6_on_v4 == t.family = "v6" /\ ~ipv6
              IN /\ r.res = "NoDefaultClientConfig" <=> ~c
                 /\ r.res = "EndpointStopping" <=> (c /\ driver_lost)
                 /\ r.res = "InvalidRemoteAddress" <=>
                        (c /\ ~driver_lost /\ v6_on_v4)
                 /\ r.res = "EngineError" <=>
                        (c /\ ~driver_lost /\ ~v6_on_v4 /\ e = "EngineError")
                 /\ r.res \in {"NoDefaultClientConfig", "EndpointStopping",
                               "InvalidRemoteAddress", "EngineError", "Ok"}
                 /\ r.res # "Ok" => UNCHANGED <<senders, incoming, outgoing>>
                 /\ r.res = "Ok" =>
                        /\ h \notin DOMAIN senders
                        /\ DOMAIN senders' = DOMAIN senders \cup {h}
                        /\ \A k \in DOMAIN senders : senders'[k] = senders[k]
                        /\ r.h = h
                        /\ r.addr.ip = t.ip
                        /\ r.addr.family = (IF ipv6 THEN "v6" ELSE t.family)
                        /\ r.addr.mapped <=> (ipv6 /\ t.family = "v4")
                        /\ UNCHANGED <<incoming, outgoing>>]_vars

\* On an endpoint rebound to an IPv6 socket, with a connection waiting in
\* incoming and a transmit queued, connect_with to an IPv4 target succeeded:
\* the handle is registered and the engine got the IPv4-mapped address.
C15_Witness ==
    /\ call_result.op = "connect_with"
    /\ call_result.res = "Ok"
    /\ call_result.h \in DOMAIN senders
    /\ call_result.addr.mapped
    /\ ipv6
    /\ incoming # <<>>
    /\ outgoing # <<>>
    /\ Cardinality(DOMAIN senders) = 2

\* The step is the drop of the driver.
DriverDropped == pc # "ref_drop" /\ pc' = "ref_drop"

\* What dropping the driver does, and what lasts from then on: driver_lost
\* is set and stays set, the registry is emptied and stays empty, the
\* accept() futures that wait are woken, and no connect succeeds.
DropEffects ==
    /\ [][DriverDropped =>
              /\ driver_lost'
              /\ DOMAIN senders' = {}
              /\ \A i \in Acceptors :
                     acc[i].st = "parked" => acc'[i].st = "woken"]_vars
    /\ [][driver_lost => driver_lost' /\ DOMAIN senders' = {}]_vars

\* C16 as stated: after the drop, every connect and every connect_with
\* returns EndpointStopping.
C16_AsStated ==
    /\ DropEffects
    /\ [][(driver_lost /\ call_result' # call_result) =>
              \A c \in BOOLEAN, h \in Handles, t \in Targets,
                 e \in EngineAnswers :
                  connect(c, h, t, e) => call_result'.res = "EndpointStopping"]_vars

\* C16: dropping the driver sets driver_lost, empties the registry and wakes
\* the waiting accept() futures; from then on driver_lost stays set, the
\* registry stays empty, every connect_with, and every connect made with a
\* default configuration, returns EndpointStopping, and a connect made
\* without one returns NoDefaultClientConfig.
C16_DriverDrop ==
    /\ DropEffects
    /\ [][(driver_lost /\ call_result' # call_result) =>
              \A c \in BOOLEAN, h \in Handles, t \in Targets,
                 e \in EngineAnswers :
                  connect(c, h, t, e) =>
                      call_result'.res = (IF c THEN "EndpointStopping"
                                          ELSE "NoDefaultClientConfig")]_vars

\* The driver was dropped while a connection was registered and an accept()
\* was waiting: the future has been woken, the registry is empty, and a
\* connect_with made since returned EndpointStopping.
C16_Witness ==
    /\ driver_lost
    /\ inserted # {}
    /\ DOMAIN senders = {}
    /\ call_result.op = "connect_with"
    /\ call_result.res = "EndpointStopping"
    /\ \E i \in Acceptors : acc[i].st = "woken"

\* C17: a successful rebind is one step that installs the new socket, sets
\* ipv6 to the family of its address and appends exactly one Ping to the
\* channel of every registered connection; the set of registered handles,
\* outgoing, its byte counter, incoming and the forward table are as before.
\* A rebind that fails leaves the socket, ipv6 and every channel as they were.
C17_Rebind ==
    /\ [][socket' # socket =>
              /\ ipv6' = is_ipv6(socket')
              /\ DOMAIN senders' = DOMAIN senders
              /\ \A k \in DOMAIN senders : senders'[k] = Append(senders[k], Ping)
              /\ UNCHANGED <<outgoing, transmit_queue_contents_len, incoming,
                             upstream_connections>>]_vars
    /\ [][(call_result'.op = "rebind" /\ call_result'.res = "IoError"
             /\ call_result' # call_result) =>
              UNCHANGED <<socket, ipv6, senders, outgoing,
                          transmit_queue_contents_len, incoming,
                          upstream_connections>>]_vars
    /\ [](ipv6 = is_ipv6(socket))

\* Two connections are registered and the endpoint has been rebound to the
\* IPv6 socket: each channel holds one Ping, while a connection waits in
\* incoming and a transmit is queued.
C17_Witness ==
    /\ socket = 2
    /\ ipv6
    /\ DOMAIN senders = Handles
    /\ \A k \in Handles : senders[k] = <<Ping>>
    /\ incoming # <<>>
    /\ outgoing # <<>>

\* ------------------------------------------------ the endpoint socket
\* C18: outgoing changes only by a push at its back or, in drive_send, by
\* the removal of its first n transmits when the socket reports n sent, the
\* byte counter going down by the sum of their lengths and the others
\* keeping their order; when drive_send returns on Pending, on the limiter
\* or on an error, nothing is removed.
C18_FifoSend ==
    /\ [][outgoing' # outgoing =>
              \/ /\ Len(outgoing') = Len(outgoing) + 1
                 /\ SubSeq(outgoing', 1, Len(outgoing)) = outgoing
              \/ /\ pc = "send"
                 /\ pc' = "send"
                 /\ sent' > sent
                 /\ sent' - sent <= Len(outgoing)
                 /\ outgoing' = SubSeq(outgoing, sent' - sent + 1, Len(outgoing))
                 /\ transmit_queue_contents_len' =
                        transmit_queue_contents_len
                            - SumLen(SubSeq(outgoing, 1, sent' - sent))]_vars
    /\ [][(pc = "send" /\ sent' # sent) => outgoing' # outgoing]_vars
    /\ [][(pc = "send" /\ pc' # "send") => outgoing' = outgoing]_vars

\* The socket took the first of several queued transmits that differ, and
\* drive_send is still running with the others queued.
C18_Witness ==
    /\ pc = "send"
    /\ sent = 1
    /\ Len(outgoing) >= 2
    /\ outgoing[1] # outgoing[2]
    /\ transmit_queue_contents_len = SumLen(outgoing)

\* C19: a ConnectionReset of the endpoint socket's recv leaves drive_recv
\* where it is, about to call poll_recv again, and the registry, incoming,
\* outgoing and the forward table as they are; any other error of its recv
\* or of its send makes the poll return Ready(Err) in that very step, with
\* the state as it is, and a poll returns Ready(Err) from no other place.
C19_SocketErrors ==
    /\ [][(reset_seen' /\ ~reset_seen) =>
              /\ pc = "recv"
              /\ pc' = "recv"
              /\ UNCHANGED <<senders, incoming, outgoing,
                             transmit_queue_contents_len, upstream_connections,
                             driver_lost, poll_result>>]_vars
    /\ [][(RecvPollErr \/ SendErr) =>
              /\ pc' = "returned"
              /\ poll_result' = "err"
              /\ UNCHANGED state_vars]_vars
    /\ [][(pc # "returned" /\ pc' = "returned" /\ poll_result' = "err") =>
              /\ pc \in {"recv", "send"}
              /\ UNCHANGED state_vars]_vars

\* A poll that swallowed a ConnectionReset went on and returned Pending, with
\* a connection registered and waiting in incoming and a transmit queued.
C19_Witness ==
    /\ reset_seen
    /\ pc = "parked"
    /\ poll_result = "pending"
    /\ ~driver_lost
    /\ DOMAIN senders # {}
    /\ incoming # <<>>
    /\ outgoing # <<>>

C21_UpstreamRelay ==
    [][(pc = "uprecv" /\ up_cur # NoAddr) =>
          /\ (outgoing' # outgoing
                \/ transmit_queue_contents_len' # transmit_queue_contents_len) =>
                 /\ transmit_queue_contents_len < max_queue_len
                 /\ up_cur' = up_cur
                 /\ \E l \in EnvLens :
                       /\ outgoing' = Append(outgoing, Transmit(up_cur, l, TRUE))
                       /\ transmit_queue_contents_len' =
                              transmit_queue_contents_len + l
          /\ up_cur' = up_cur =>
                 /\ transmit_queue_contents_len < max_queue_len =>
                        Len(outgoing') = Len(outgoing) + 1
                 /\ transmit_queue_contents_len >= max_queue_len =>
                        /\ outgoing' = outgoing
                        /\ transmit_queue_contents_len' = transmit_queue_contents_len
                 /\ upstream_connections'[up_cur].active_time = now
                 /\ upstream_connections' =
                        [upstream_connections EXCEPT ![up_cur].active_time = now]
          /\ decision' = decision
          /\ decision = NoDecision
          /\ senders' = senders
          /\ incoming' = incoming
      ]_vars

\* Relayed segments filled the queue to its cap, the last one addressed to
\* the client whose entry the loop is at, read after the clock advanced.
C21_Witness ==
    /\ pc = "uprecv"
    /\ up_cur # NoAddr
    /\ now > 0
    /\ upstream_connections[up_cur].active_time = now
    /\ outgoing # <<>>
    /\ outgoing[Len(outgoing)] = Transmit(up_cur, 1, TRUE)
    /\ transmit_queue_contents_len >= max_queue_len

\* ------------------------------------- the transmits of connections
\* C22: when the event pump consumes a Transmit event, a transmit of the
\* event's length is appended to the back of outgoing and the queue's bytes
\* grow by that length, whatever the bytes were, also at or above the cap.
C22_TransmitBypass ==
    [][(/\ pc = "events"
        /\ events # <<>>
        /\ Head(events).kind = "Transmit"
        /\ events' = Tail(events)) =>
          /\ Len(outgoing') = Len(outgoing) + 1
          /\ SubSeq(outgoing', 1, Len(outgoing)) = outgoing
          /\ outgoing'[Len(outgoing')].len = Head(events).len
          /\ ~outgoing'[Len(outgoing')].limited
          /\ transmit_queue_contents_len' =
                 transmit_queue_contents_len + Head(events).len
      ]_vars

\* A connection's transmit was appended while the bytes were at or above
\* the cap: it is the last of the queue, behind admitted bytes that reach it.
C22_Witness ==
    /\ pc = "events"
    /\ ev_count >= 1
    /\ outgoing # <<>>
    /\ ~outgoing[Len(outgoing)].limited
    /\ SumLen(SubSeq(outgoing, 1, Len(outgoing) - 1)) >= max_queue_len
    /\ transmit_queue_contents_len > max_queue_len

\* ------------------------------------------------ the poll's composition
\* The successions of the driver's position that a poll, the driver's drop and
\* the drop of its reference may take; a stage is left for "returned" by `?`.
StageOrder ==
    {<<"parked", "recv">>, <<"recv", "recv_batch">>, <<"recv", "events">>,
     <<"recv_batch", "recv_act">>, <<"recv_batch", "recv">>,
     <<"recv_batch", "events">>, <<"recv_act", "recv_batch">>,
     <<"events", "send">>, <<"send", "uprecv">>, <<"uprecv", "upsend">>,
     <<"upsend", "finish">>, <<"finish", "parked">>, <<"finish", "returned">>,
     <<"recv", "returned">>, <<"recv_act", "returned">>, <<"send", "returned">>,
     <<"uprecv", "returned">>, <<"upsend", "returned">>,
     <<"parked", "ref_drop">>, <<"returned", "ref_drop">>, <<"ref_drop", "gone">>}

\* The composition of a poll: the stages follow one another in the order
\* receive, event pump, send, upstream-recv, upstream-send under one hold of
\* the mutex; what a stage reported in keep_going is kept to the end; the
\* accept() futures are notified at the end iff incoming is not empty; the
\* poll ends iff ref_count = 0 and no connection is left, and then does not
\* wake itself; otherwise it returns Pending and wakes itself iff keep_going.
PollComposition ==
    /\ pc' # pc => <<pc, pc'>> \in StageOrder
    /\ (InPoll /\ InPoll') =>
           /\ UNCHANGED <<api_handles, close, socket, ref_count, call_result>>
           /\ keep_going => keep_going'
           /\ pc # "finish" => acc' = acc
    /\ (pc = "recv_batch" /\ pc' = "events") => keep_going'
    /\ (pc = "events" /\ pc' = "send" /\ ev_count = IO_LOOP_BOUND) => keep_going'
    /\ (pc = "finish" /\ pc' # pc) =>
           /\ \A i \in Acceptors :
                 acc'[i] = IF incoming # <<>> /\ acc[i].st = "parked"
                           THEN [st |-> "woken", res |-> 0] ELSE acc[i]
           /\ pc' = "returned" <=> (ref_count = 0 /\ DOMAIN senders = {})
           /\ pc' = "returned" => poll_result' = "ok"
           /\ pc' = "parked" =>
                  poll_result' = IF keep_going THEN "pending_wake" ELSE "pending"

\* C23 as stated: the composition, every connection transmit consumed by the
\* event pump is gone from the queue once the send stage is over (the socket
\* of these runs takes all it is offered), and when a poll returns no forward
\* entry has a datagram pending.
C23_AsStated ==
    [][/\ PollComposition
       /\ (pc = "send" /\ pc' # pc) => \A i \in 1..Len(outgoing') : outgoing'[i].limited
       /\ (InPoll /\ ~InPoll') =>
              \A a \in DOMAIN upstream_connections' :
                  upstream_connections'[a].to_upstream = <<>>
      ]_vars

\* C23: the composition; the send stage leaves a connection transmit in the
\* queue only when its limiter denies work (it reports keep_going); and a
\* poll that reaches its end, without an error, has offered every pending
\* datagram of every forward entry to the entry's socket.
C23_PollComposition ==
    [][/\ PollComposition
       /\ (pc = "send" /\ pc' = "uprecv") =>
              \/ \A i \in 1..Len(outgoing') : outgoing'[i].limited
              \/ keep_going' /\ outgoing' = outgoing
       /\ (pc = "events" /\ pc' = "send") => outgoing' = outgoing
       /\ pc' = "finish" =>
              \A a \in DOMAIN upstream_connections' :
                  upstream_connections'[a].to_upstream = <<>>
      ]_vars

\* A poll that consumed a Transmit event and appended a datagram to an
\* entry's pending queue is at its end with both gone, about to wake itself,
\* with a connection waiting in incoming and an accept() future parked.
C23_Witness ==
    /\ pc = "finish"
    /\ sent >= 1
    /\ keep_going
    /\ outgoing = <<>>
    /\ incoming # <<>>
    /\ \E i \in Acceptors : acc[i].st = "parked"
    /\ DOMAIN upstream_connections # {}
    /\ \A a \in DOMAIN upstream_connections :
           /\ upstream_connections[a].to_upstream = <<>>
           /\ upstream_connections[a].active_time = now

\* ------------------------------------------------ the work budgets
\* C24: a driver poll always returns, also when its sockets are ready at
\* every call: each pipeline stops after a bounded number of socket calls.
C24_PollReturns == InPoll ~> ~InPoll

\* ------------------------------------------------ the handle count
\* C25: whenever the mutex is free, ref_count is the number of live Endpoint
\* handles, the driver's reference not counted, also after the driver has
\* ended or was dropped; and ref_count never goes below zero.
C25_RefCount ==
    /\ ref_count >= 0
    /\ Unlocked => ref_count = api_handles

\* ------------------------------------------------ the parked driver
\* C26: when a poll has returned Pending without waking itself, outgoing is
\* empty or the endpoint socket's send returned Pending during that poll.
\* In the ready runs the socket never returns Pending, which leaves: a
\* driver parked without a wake-up of its own has an empty outgoing queue.
C26_NoStrandedTransmit ==
    (pc = "parked" /\ poll_result = "pending") => outgoing = <<>>

\* ------------------------------------------------ the registry lookups
\* C27: the driver never unwraps a failed lookup: whenever it forwards an
\* engine event to the worker of h, h is a key of senders, so no poll panics.
C27_LookupsSucceed == pc # "panicked"

\* ------------------------------------------------ receiving after rebind
\* C28: after rebind has put in a new socket while the driver is parked, the
\* driver is polled again and calls poll_recv on the new socket, so that a
\* datagram arriving there is read, also when no connection is registered
\* (a driver that is dropped meanwhile reads nothing more).
C28_ReceiveAfterRebind == (pc = "parked" /\ rebound) ~> (~rebound \/ driver_lost)

\* ------------------------------------------------ concurrent accepts
\* C29: with two accept() futures polled in any order between the driver's
\* polls, incoming grows only at its back, by the connection of a
\* NewConnection decision, and shrinks only at its front, by the entry that
\* one accept() returns at that step, so that entries come out in the order
\* they went in and no entry is returned twice; an accept() that finds
\* incoming empty, the driver not lost and no close recorded becomes Pending,
\* and a Pending accept() changes only by being notified.
C29_AcceptOnce ==
    /\ [][/\ incoming' # incoming =>
                \/ /\ pc = "recv_act"
                   /\ decision.kind = "NewConnection"
                   /\ incoming' = Append(incoming, decision.h)
                   /\ acc' = acc
                \/ /\ incoming # <<>>
                   /\ incoming' = Tail(incoming)
                   /\ \E i \in Racers :
                         /\ acc[i].st \in {"created", "woken"}
                         /\ acc'[i] = [st |-> "done", res |-> Head(incoming)]
                         /\ \A j \in Racers \ {i} : acc'[j] = acc[j]
          /\ \A i \in Racers :
                /\ (acc'[i] # acc[i] /\ acc'[i].st = "done") =>
                       IF acc'[i].res # 0
                       THEN /\ ~driver_lost
                            /\ incoming # <<>>
                            /\ acc'[i].res = Head(incoming)
                            /\ incoming' = Tail(incoming)
                       ELSE driver_lost \/ (incoming = <<>> /\ close # NoClose)
                /\ (/\ acc[i].st \in {"created", "woken"}
                    /\ acc'[i] # acc[i]
                    /\ incoming = <<>> /\ ~driver_lost /\ close = NoClose) =>
                       acc'[i] = [st |-> "parked", res |-> 0]
                /\ (acc[i].st = "parked" /\ acc'[i] # acc[i]) =>
                       /\ acc'[i] = [st |-> "woken", res |-> 0]
                       /\ \/ pc = "finish" /\ incoming # <<>>
                          \/ close' # close
                          \/ driver_lost' /\ ~driver_lost
         ]_vars
    /\ [](\A i \in Racers :
             (acc[i].st = "done" /\ acc[i].res # 0) =>
                 /\ acc[i].res \notin Range(incoming)
                 /\ \A j \in Racers \ {i} :
                        acc[j].st = "done" => acc[j].res # acc[i].res)

\* Two connections were accepted and each accept() future returned one of
\* them; the queue is empty again.
C29_Witness ==
    /\ \A i \in Racers : acc[i].st = "done" /\ acc[i].res # 0
    /\ acc[1].res # acc[2].res
    /\ incoming = <<>>
    /\ ~driver_lost
====
